---- MODULE Spec2Model ----
(***************************************************************************)
(* Model of the evaluation engine of DATASUSAnalytics.                     *)
(*                                                                         *)
(* Part 1: EvaluationDAG (evaluation/dag/base.py): the task table, the     *)
(* networkx graph, add_task, validate, get_execution_order and execute.    *)
(* execute() is split at the two places where its loop body touches        *)
(* self.results: the dependency loop (lines 180-202) and the call of the   *)
(* executable with the recording of its outcome (lines 204-233).           *)
(* PipelineSpec builds the DAG of create_evaluation_pipeline               *)
(* (evaluation/dag/pipeline.py) call by call and runs it.                  *)
(*                                                                         *)
(* Part 2: evaluate_questions and aggregate_results (evaluation/dag/       *)
(* tasks.py): the sequential loop, the thread pool with its three locks,   *)
(* the shared data source handle and the statistics per metric.            *)
(*                                                                         *)
(* Part 3: the metrics (evaluation/metrics): SQLNormalizer, BaseMetric and *)
(* the evaluation functions of the three metrics. Execution Accuracy logs  *)
(* the statements it sends to the data source; Component Matching works on *)
(* token lists through ImprovedSQLParser and ImprovedColumnComparator.     *)
(*                                                                         *)
(* Each part has its own variables; a specification of one part leaves the *)
(* variables of the other parts at their idle values.                      *)
(***************************************************************************)
EXTENDS Integers, Sequences, FiniteSets, TLC

\* ---------------------------------------------------------------- bounds
MaxTasks == 3          \* tasks registered in one DAG
MaxDeps == 2           \* length of a depends_on list

\* ---------------------------------------------------------------- values
TaskNames == {"a", "b", "c", "d"}

\* keyword names that initial_data may carry: a task name and a plain one
InitialKeys == {"a", "cfg"}

\* the dictionaries a caller passes as initial_data (None is read as {})
InitialDatas ==
    { [k \in {} |-> << "init" >>],
      [k \in InitialKeys |-> << "init" >>] }

\* None as a payload or an error; every payload is a tuple of strings
None == << "None" >>
\* no exception left the call
NoException == "None"

\* what an executable does when it is called: return a payload or raise
FuncOutcomes ==
    { [raises |-> FALSE, value |-> << "out" >>],
      [raises |-> TRUE, value |-> << "boom" >>] }

Range(s) == { s[i] : i \in 1..Len(s) }

RECURSIVE ListsUpTo(_, _)
\* the lists of distinct names of S of length at most n
ListsUpTo(S, n) ==
    IF n = 0 THEN { <<>> }
    ELSE LET shorter == ListsUpTo(S, n - 1)
         IN shorter \cup
            UNION { { Append(s, x) : x \in S \ Range(s) } : s \in shorter }

\* the calls add_task(name, depends_on) that are made: any name, any list of
\* at most MaxDeps distinct names, registered or not
AddTaskArgs == TaskNames \X ListsUpTo(TaskNames, MaxDeps)

\* dict[k] = v
DictSet(d, k, v) == [x \in (DOMAIN d) \cup {k} |-> IF x = k THEN v ELSE d[x]]

\* d.update(e)
DictUpdate(d, e) ==
    [x \in (DOMAIN d) \cup (DOMAIN e) |-> IF x \in DOMAIN e THEN e[x] ELSE d[x]]

EmptyDict == [k \in {} |-> None]

\* ---------------------------------------------------------------- state
VARIABLES
    tasks,            \* self.tasks: name -> TaskDefinition
    graph,            \* self.graph: nodes and edges in insertion order
    results,          \* self.results: name -> TaskResult
    pc,               \* where execute() stands: idle, prepare, invoke, summary
    execution_order,  \* local of execute()
    idx,              \* position of the loop in execution_order (1-based)
    initial_data,     \* argument of execute(), after "or {}"
    task_inputs,      \* local of execute(): the keyword arguments being built
    calls,            \* the calls func(**task_inputs) made by this execute()
    raised            \* exception that left the last call on the DAG, or None

vars == << tasks, graph, results, pc, execution_order, idx, initial_data,
           task_inputs, calls, raised >>

\* state of evaluate_questions (evaluation/dag/tasks.py), Part 2
VARIABLES
    questions,        \* argument: the loaded examples, in order
    metrics,          \* argument: the metric objects, in order
    max_workers,      \* kwargs.get('max_workers', 1)
    epc,              \* where the calling thread stands
    wpc,              \* per example: where its evaluate_single_question stands
    wlocal,           \* per example: the locals of its evaluate_single_question
    locks,            \* stats_lock, results_lock, count_lock: the holder
    agent_stats,      \* success_count, failure_count, total_time
    metric_scores,    \* metric name -> list of scores
    detailed_results, \* the list "results" of question_results records
    completed_count,  \* nonlocal completed_count
    connection,       \* transaction status of the one psycopg2 connection
    aggregated        \* what aggregate_results returned

evars == << questions, metrics, max_workers, epc, wpc, wlocal, locks,
            agent_stats, metric_scores, detailed_results, completed_count,
            connection, aggregated >>

\* state of one metric evaluation (evaluation/metrics), Part 3
VARIABLES
    ctx,              \* the EvaluationContext and what its environment does
    mres,             \* what metric.evaluate(context) came to
    normalized,       \* the results of successive normalize_sql calls
    cursor_log        \* the statements sent to the data source, in order

mvars == << ctx, mres, normalized, cursor_log >>

allvars == << vars, evars, mvars >>

\* nothing is being evaluated
Free == << >>
Worker(q) == << "worker", q >>
MainThread == << "main" >>

ZeroStats == [success_count |-> 0, failure_count |-> 0, total_time |-> 0]

NoAggregate == EmptyDict

EvalIdle ==
    /\ questions = << >>
    /\ metrics = << >>
    /\ max_workers = 1
    /\ epc = "start"
    /\ wpc = << >>
    /\ wlocal = << >>
    /\ locks = [stats_lock |-> Free, results_lock |-> Free, count_lock |-> Free]
    /\ agent_stats = ZeroStats
    /\ metric_scores = EmptyDict
    /\ detailed_results = << >>
    /\ completed_count = 0
    /\ connection = "ready"
    /\ aggregated = NoAggregate

\* ======================================================================
\* Part 3: the metrics (evaluation/metrics): SQLNormalizer, BaseMetric,
\* ExactMatchMetric, ExecutionAccuracyMetric, ComponentMatchingMetric.
\*
\* A statement is a sequence of lexical symbols: a keyword in lower and in
\* upper case, an identifier, a blank, a newline, the terminator and a
\* comment.  None is Python's None, << >> the empty string.
\* ======================================================================
MaxSqlLen == 3         \* symbols in a statement
MaxRows == 2           \* rows in a result set

Symbols == {"select", "SELECT", "t", " ", "\n", ";", "/*c*/"}

SqlStrings == UNION { [1..n -> Symbols] : n \in 0..MaxSqlLen }

\* the reference statements of the examples
ReferenceStatements == { None, << >>, << "SELECT", " ", "t" >>, << "t", ";" >> }

\* result rows of one column; "a " is the value "a" with a trailing blank
RowValues == {"a", "a ", "b"}

RowLists == UNION { [1..n -> { << v >> : v \in RowValues }] : n \in 0..MaxRows }

\* None in the place of a list of rows
NoRows == << None >>

\* what the data source does with a statement: it returns rows or raises
\* an exception, given by its message
Executions ==
    { [rows |-> r, error |-> None] : r \in RowLists }
        \cup { [rows |-> NoRows, error |-> << "column does not exist" >>],
               [rows |-> NoRows, error |-> << "statement timeout" >>] }

\* the handles _execute_query tells apart with hasattr, by the first
\* attribute found: execute_query (as SimpleDatabaseConnection has),
\* get_raw_connection, or a connection used directly
HandleKinds == { "execute_query", "get_raw_connection", "cursor" }

NoFault == << "no exception" >>

\* an exception raised inside the evaluation function, by its message
Faults == { NoFault, << "boom" >> }

\* tokens that are no word (\w+): punctuation, operators, comments,
\* whitespace, the alias mark and the keywords of two words
NonWords ==
    { "(", ")", "*", ",", "=", ";", "/*c*/", "<alias>", " ", "\n",
      "GROUP BY", "ORDER BY", "LEFT JOIN", "INNER JOIN" }

\* tokens made of digits
Numbers == { "1" }

\* the token values of a statement or of a clause joined with one blank
RECURSIVE JoinTokens(_)
JoinTokens(toks) ==
    IF Len(toks) <= 1 THEN toks
    ELSE << Head(toks), " " >> \o JoinTokens(Tail(toks))

\* a statement made of its clauses
Statement(projection, source, joins, filter, grouping, having, ordering, limit) ==
    JoinTokens(<< "SELECT" >> \o projection \o << "FROM" >> \o source \o joins
                   \o filter \o grouping \o having \o ordering \o limit)

\* the clauses the statements of the clause comparison are made of; a tail
\* is a filter, a having clause or a limit, at most one of them
ClauseChoices ==
    [projections |->
         { << "a" >>,
           << "a", ",", "COUNT", "(", "*", ")", "AS", "total" >>,
           << "a", ",", "COUNT", "(", "*", ")", "AS", "cnt" >>,
           << "a", ",", "COUNT", "(", "*", ")" >> },
     sources |-> { << "t" >>, << "u" >>, << "t", ",", "u" >> },
     joins |->
         { << >>, << "JOIN", "v", "ON", "k" >>,
           << "LEFT JOIN", "v", "ON", "k" >> },
     groupings |->
         { << >>, << "GROUP BY", "a" >>, << "GROUP BY", "a", ",", "b" >> },
     orderings |->
         { << >>, << "ORDER BY", "total", "DESC" >>,
           << "ORDER BY", "cnt", "DESC" >> },
     tails |->
         { << << >>, << >>, << >> >>,
           << << "WHERE", "k", "=", "1" >>, << >>, << >> >>,
           << << >>, << "HAVING", "k", "=", "1" >>, << >> >>,
           << << >>, << >>, << "LIMIT", "1" >> >> }]

\* the reference statements of the clause comparison
ReferenceClauseStatements ==
    { Statement(p, << "t" >>, j, << >>, g, << >>, o, << >>) :
          p \in { << "a" >>,
                   << "a", ",", "COUNT", "(", "*", ")", "AS", "total" >> },
          j \in ClauseChoices.joins,
          g \in ClauseChoices.groupings \ { << >> },
          o \in ClauseChoices.orderings \ { << "ORDER BY", "cnt", "DESC" >> } }

PredictedClauseStatements ==
    { Statement(p, s, j, t[1], g, t[2], o, t[3]) :
          p \in ClauseChoices.projections, s \in ClauseChoices.sources,
          j \in ClauseChoices.joins, g \in ClauseChoices.groupings,
          o \in ClauseChoices.orderings, t \in ClauseChoices.tails }

NoResult == [metric_name |-> "None"]

DefaultContext ==
    [ground_truth_sql |-> None, predicted_sql |-> None,
     database_connection |-> FALSE, parse_fails |-> FALSE,
     fault |-> NoFault, handle |-> "execute_query",
     gt_execution |-> [rows |-> << >>, error |-> None],
     pred_execution |-> [rows |-> << >>, error |-> None]]

MetricIdle ==
    /\ ctx = DefaultContext
    /\ mres = NoResult
    /\ normalized = << >>
    /\ cursor_log = << >>

\* ------------------------------------------------------------ networkx
\* DiGraph.add_node: a node that exists keeps its place
GraphAddNode(g, n) ==
    IF n \in Range(g.nodes) THEN g
    ELSE [g EXCEPT !.nodes = Append(g.nodes, n)]

\* DiGraph.add_edge: creates missing end points, an existing edge is kept
GraphAddEdge(g, u, v) ==
    LET g1 == GraphAddNode(GraphAddNode(g, u), v)
    IN IF <<u, v>> \in Range(g1.edges) THEN g1
       ELSE [g1 EXCEPT !.edges = Append(g1.edges, <<u, v>>)]

RECURSIVE GraphAddEdgesFrom_Reversed(_, _, _)
\* the edges drawn from the task to its dependencies: add_edge(name, dep)
GraphAddEdgesFrom_Reversed(g, deps, name) ==
    IF deps = <<>> THEN g
    ELSE GraphAddEdgesFrom_Reversed(GraphAddEdge(g, name, Head(deps)),
                                    Tail(deps), name)

RECURSIVE GraphAddEdgesFrom(_, _, _)
\* for dep in depends_on: self.graph.add_edge(dep, name)
GraphAddEdgesFrom(g, deps, name) ==
    IF deps = <<>> THEN g
    ELSE GraphAddEdgesFrom(GraphAddEdge(g, Head(deps), name), Tail(deps), name)

InDegree(g, v) == Cardinality({ e \in Range(g.edges) : e[2] = v })

\* G.neighbors(u): successors in the order their edges were added
Neighbors(g, u) ==
    LET es == SelectSeq(g.edges, LAMBDA e : e[1] = u)
    IN [i \in 1..Len(es) |-> es[i][2]]

RECURSIVE KahnChildren(_, _, _)
\* inner loop of topological_generations over the children of one node:
\* st = [indeg: remaining in-degrees, next: the next generation]
KahnChildren(children, indeg, next) ==
    IF children = <<>> THEN [indeg |-> indeg, next |-> next]
    ELSE LET c == Head(children)
             d == indeg[c] - 1
         IN IF d = 0
            THEN KahnChildren(Tail(children),
                              [x \in (DOMAIN indeg) \ {c} |-> indeg[x]],
                              Append(next, c))
            ELSE KahnChildren(Tail(children), [indeg EXCEPT ![c] = d], next)

RECURSIVE KahnGeneration(_, _, _, _)
KahnGeneration(g, gen, indeg, next) ==
    IF gen = <<>> THEN [indeg |-> indeg, next |-> next]
    ELSE LET st == KahnChildren(Neighbors(g, Head(gen)), indeg, next)
         IN KahnGeneration(g, Tail(gen), st.indeg, st.next)

RECURSIVE KahnLoop_Prepend(_, _, _, _)
\* the generations collected last first
KahnLoop_Prepend(g, gen, indeg, acc) ==
    IF gen = <<>>
    THEN [order |-> acc, feasible |-> (DOMAIN indeg = {})]
    ELSE LET st == KahnGeneration(g, gen, indeg, <<>>)
         IN KahnLoop_Prepend(g, st.next, st.indeg, gen \o acc)

RECURSIVE KahnLoop(_, _, _, _)
KahnLoop(g, gen, indeg, acc) ==
    IF gen = <<>>
    THEN [order |-> acc, feasible |-> (DOMAIN indeg = {})]
    ELSE LET st == KahnGeneration(g, gen, indeg, <<>>)
         IN KahnLoop(g, st.next, st.indeg, acc \o gen)

\* nx.topological_sort(G): the generations of Kahn's algorithm, flattened;
\* feasible = FALSE stands for NetworkXUnfeasible (a cycle)
TopologicalSort(g) ==
    LET withIn == { v \in Range(g.nodes) : InDegree(g, v) > 0 }
        indeg == [v \in withIn |-> InDegree(g, v)]
        zero == SelectSeq(g.nodes, LAMBDA v : InDegree(g, v) = 0)
    IN KahnLoop(g, zero, indeg, <<>>)

\* ------------------------------------------------------- EvaluationDAG
\* validate() that finds every graph valid
validate_Always == TRUE

\* validate(): nx.is_directed_acyclic_graph(self.graph)
validate == TopologicalSort(graph).feasible

\* get_execution_order(): list(nx.topological_sort(self.graph))
get_execution_order == TopologicalSort(graph).order

TaskDefinition(name, deps) == [name |-> name, depends_on |-> deps]

TaskResult(name, success, data, error) ==
    [task_name |-> name, success |-> success, data |-> data, error |-> error]

DependencyFailed(dep) == << "Dependency failed", dep >>

Init ==
    /\ tasks = EmptyDict
    /\ graph = [nodes |-> <<>>, edges |-> <<>>]
    /\ results = EmptyDict
    /\ pc = "idle"
    /\ execution_order = <<>>
    /\ idx = 0
    /\ initial_data = EmptyDict
    /\ task_inputs = EmptyDict
    /\ calls = <<>>
    /\ raised = NoException

\* the graph is built once, before it is run (create_evaluation_pipeline
\* then execute): nothing is added to a DAG that holds results of a run
Building == pc = "idle" /\ results = EmptyDict

\* add_task that stores the definition before it looks at the dependencies
AddTask_RegisterFirst(name, depends_on) ==
    /\ Building
    /\ name \in DOMAIN tasks \/ Cardinality(DOMAIN tasks) < MaxTasks
    /\ IF name \in DOMAIN tasks
       THEN /\ raised' = "ValueError: already exists"
            /\ UNCHANGED << tasks, graph >>
       ELSE /\ tasks' = DictSet(tasks, name, TaskDefinition(name, depends_on))
            /\ IF \E i \in 1..Len(depends_on) : depends_on[i] \notin DOMAIN tasks'
               THEN /\ raised' = "ValueError: dependency not found"
                    /\ UNCHANGED graph
               ELSE /\ raised' = NoException
                    /\ graph' = GraphAddEdgesFrom(GraphAddNode(graph, name),
                                                  depends_on, name)
    /\ UNCHANGED << results, pc, execution_order, idx, initial_data,
                    task_inputs, calls >>

\* add_task without the check of lines 84-85: a second definition replaces
\* the first
AddTask_Overwrite(name, depends_on) ==
    /\ Building
    /\ name \in DOMAIN tasks \/ Cardinality(DOMAIN tasks) < MaxTasks
    /\ IF \E i \in 1..Len(depends_on) : depends_on[i] \notin DOMAIN tasks
       THEN /\ raised' = "ValueError: dependency not found"
            /\ UNCHANGED << tasks, graph >>
       ELSE /\ raised' = NoException
            /\ tasks' = DictSet(tasks, name, TaskDefinition(name, depends_on))
            /\ graph' = GraphAddEdgesFrom(GraphAddNode(graph, name), depends_on, name)
    /\ UNCHANGED << results, pc, execution_order, idx, initial_data,
                    task_inputs, calls >>

\* add_task without the loop of lines 90-92: a dependency need not be
\* registered
AddTask_Unchecked(name, depends_on) ==
    /\ Building
    /\ name \in DOMAIN tasks \/ Cardinality(DOMAIN tasks) < MaxTasks
    /\ IF name \in DOMAIN tasks
       THEN /\ raised' = "ValueError: already exists"
            /\ UNCHANGED << tasks, graph >>
       ELSE /\ raised' = NoException
            /\ tasks' = DictSet(tasks, name, TaskDefinition(name, depends_on))
            /\ graph' = GraphAddEdgesFrom(GraphAddNode(graph, name), depends_on, name)
    /\ UNCHANGED << results, pc, execution_order, idx, initial_data,
                    task_inputs, calls >>

\* add_task(name, func, depends_on)
AddTask(name, depends_on) ==
    /\ Building
    /\ name \in DOMAIN tasks \/ Cardinality(DOMAIN tasks) < MaxTasks
    /\ IF name \in DOMAIN tasks
       THEN /\ raised' = "ValueError: already exists"
            /\ UNCHANGED << tasks, graph >>
       ELSE IF \E i \in 1..Len(depends_on) : depends_on[i] \notin DOMAIN tasks
       THEN /\ raised' = "ValueError: dependency not found"
            /\ UNCHANGED << tasks, graph >>
       ELSE /\ raised' = NoException
            /\ tasks' = DictSet(tasks, name, TaskDefinition(name, depends_on))
            /\ graph' = GraphAddEdgesFrom(GraphAddNode(graph, name), depends_on, name)
    /\ UNCHANGED << results, pc, execution_order, idx, initial_data,
                    task_inputs, calls >>

\* execute(initial_data), lines 152-170: validate, reset, fix the order
ExecuteStart ==
    /\ pc = "idle"
    /\ calls' = <<>>
    /\ IF ~validate
       THEN /\ raised' = "RuntimeError: invalid DAG"
            /\ UNCHANGED << results, pc, execution_order, idx, initial_data >>
       ELSE /\ raised' = NoException
            /\ results' = EmptyDict
            /\ \E d \in InitialDatas : initial_data' = d
            /\ execution_order' = get_execution_order
            /\ idx' = 1
            /\ pc' = IF get_execution_order = <<>> THEN "summary" ELSE "prepare"
    /\ task_inputs' = EmptyDict
    /\ UNCHANGED << tasks, graph >>

RECURSIVE DependencyLoop_SetDefault(_, _, _, _)
\* task_inputs.setdefault(dep_name, ...) in place of the assignment of
\* line 191: an initial input of the same name wins
DependencyLoop_SetDefault(deps, name, inputs, res) ==
    IF deps = <<>> THEN [inputs |-> inputs, results |-> res]
    ELSE LET dep_name == Head(deps)
         IN IF dep_name \in DOMAIN res
            THEN IF res[dep_name].success
                 THEN DependencyLoop_SetDefault(Tail(deps), name,
                        IF dep_name \in DOMAIN inputs THEN inputs
                        ELSE DictSet(inputs, dep_name, res[dep_name].data),
                        res)
                 ELSE DependencyLoop_SetDefault(Tail(deps), name, inputs,
                        DictSet(res, name,
                                TaskResult(name, FALSE, None,
                                           DependencyFailed(dep_name))))
            ELSE DependencyLoop_SetDefault(Tail(deps), name, inputs, res)

RECURSIVE DependencyLoop(_, _, _, _)
\* lines 187-202: the loop over task_def.depends_on; the "continue" of
\* line 202 belongs to this loop, so the loop goes on to the next dependency
DependencyLoop(deps, name, inputs, res) ==
    IF deps = <<>> THEN [inputs |-> inputs, results |-> res]
    ELSE LET dep_name == Head(deps)
         IN IF dep_name \in DOMAIN res
            THEN IF res[dep_name].success
                 THEN DependencyLoop(Tail(deps), name,
                                     DictSet(inputs, dep_name, res[dep_name].data),
                                     res)
                 ELSE DependencyLoop(Tail(deps), name, inputs,
                                     DictSet(res, name,
                                             TaskResult(name, FALSE, None,
                                                        DependencyFailed(dep_name))))
            ELSE DependencyLoop(Tail(deps), name, inputs, res)

\* lines 173-202: one task's inputs are prepared
PrepareInputs ==
    /\ pc = "prepare"
    /\ LET task_name == execution_order[idx]
           task_def == tasks[task_name]
           st == DependencyLoop(task_def.depends_on, task_name,
                                DictUpdate(EmptyDict, initial_data), results)
       IN /\ task_inputs' = st.inputs
          /\ results' = st.results
    /\ pc' = "invoke"
    /\ UNCHANGED << tasks, graph, execution_order, idx, initial_data, calls,
                    raised >>

\* the record kept of one call func(**task_inputs): the keyword arguments,
\* self.results as it stood, and what the executable did
CallRecord(name, inputs, res, out) ==
    [task |-> name, inputs |-> inputs, results_before |-> res, outcome |-> out]

\* what lines 210-230 store for an executable that did `out`
RecordOutcome(task_name, out) ==
    IF out.raises
    THEN TaskResult(task_name, FALSE, None, out.value)
    ELSE TaskResult(task_name, TRUE, Append(out.value, task_name), None)

\* RunTask with "break" in place of the "continue" of line 233
RunTask_BreakOnError ==
    /\ pc = "invoke"
    /\ \E out \in FuncOutcomes :
        LET task_name == execution_order[idx]
        IN /\ calls' = Append(calls, CallRecord(task_name, task_inputs, results, out))
           /\ results' = DictSet(results, task_name, RecordOutcome(task_name, out))
           /\ pc' = IF out.raises \/ idx + 1 > Len(execution_order)
                    THEN "summary" ELSE "prepare"
    /\ idx' = idx + 1
    /\ UNCHANGED << tasks, graph, execution_order, initial_data, task_inputs,
                    raised >>

\* RunTask without the try/except of lines 206-233
RunTask_Reraise ==
    /\ pc = "invoke"
    /\ \E out \in FuncOutcomes :
        LET task_name == execution_order[idx]
        IN /\ calls' = Append(calls, CallRecord(task_name, task_inputs, results, out))
           /\ IF out.raises
              THEN /\ raised' = "Exception: boom"
                   /\ pc' = "idle"
                   /\ UNCHANGED results
              ELSE /\ raised' = raised
                   /\ results' = DictSet(results, task_name,
                                         RecordOutcome(task_name, out))
                   /\ pc' = IF idx + 1 > Len(execution_order)
                            THEN "summary" ELSE "prepare"
    /\ idx' = idx + 1
    /\ UNCHANGED << tasks, graph, execution_order, initial_data, task_inputs >>

\* lines 204-233: the executable is called and its outcome recorded; an
\* exception is caught and the loop continues with the next task
RunTask ==
    /\ pc = "invoke"
    /\ \E out \in FuncOutcomes :
        LET task_name == execution_order[idx]
        IN /\ calls' = Append(calls, CallRecord(task_name, task_inputs, results, out))
           /\ results' = DictSet(results, task_name, RecordOutcome(task_name, out))
    /\ idx' = idx + 1
    /\ pc' = IF idx + 1 > Len(execution_order) THEN "summary" ELSE "prepare"
    /\ UNCHANGED << tasks, graph, execution_order, initial_data, task_inputs,
                    raised >>

\* lines 235-249: summary and return self.results; the locals are gone
ExecuteReturn ==
    /\ pc = "summary"
    /\ pc' = "idle"
    /\ execution_order' = <<>>
    /\ idx' = 0
    /\ initial_data' = EmptyDict
    /\ task_inputs' = EmptyDict
    /\ UNCHANGED << tasks, graph, results, calls, raised >>

RECURSIVE ReachSet(_, _)
\* the nodes reached from the set S along the edges E
ReachSet(E, S) ==
    LET T == S \cup { e[2] : e \in { f \in E : f[1] \in S } }
    IN IF T = S THEN S ELSE ReachSet(E, T)

\* u reaches v along the edges of g (u reaches itself)
Reaches(g, u, v) == v \in ReachSet(Range(g.edges), {u})

\* a cycle is manufactured in a valid graph: dag.graph.add_edge(v, u), not
\* through add_task, for registered tasks u, v where u already reaches v
AddEdgeDirect ==
    /\ Building
    /\ validate
    /\ \E u \in DOMAIN tasks, v \in DOMAIN tasks :
        /\ Reaches(graph, u, v)
        /\ graph' = GraphAddEdge(graph, v, u)
    /\ raised' = NoException
    /\ UNCHANGED << tasks, results, pc, execution_order, idx, initial_data,
                    task_inputs, calls >>

Next ==
    \/ \E args \in AddTaskArgs : AddTask(args[1], args[2]) /\ UNCHANGED << evars, mvars >>
    \/ ExecuteStart /\ UNCHANGED << evars, mvars >>
    \/ PrepareInputs /\ UNCHANGED << evars, mvars >>
    \/ RunTask /\ UNCHANGED << evars, mvars >>
    \/ ExecuteReturn /\ UNCHANGED << evars, mvars >>

InitDAG == Init /\ EvalIdle /\ MetricIdle

Spec == InitDAG /\ [][Next]_allvars

NextCycle ==
    \/ \E args \in AddTaskArgs : AddTask(args[1], args[2]) /\ UNCHANGED << evars, mvars >>
    \/ ExecuteStart /\ UNCHANGED << evars, mvars >>
    \/ PrepareInputs /\ UNCHANGED << evars, mvars >>
    \/ RunTask /\ UNCHANGED << evars, mvars >>
    \/ ExecuteReturn /\ UNCHANGED << evars, mvars >>
    \/ AddEdgeDirect /\ UNCHANGED << evars, mvars >>

SpecCycle == InitDAG /\ [][NextCycle]_allvars

\* ------------------------------------------- create_evaluation_pipeline
\* the calls with the dependencies its docstring lists (lines 18-27):
\* cleanup_resources "depends on database"
PipelineCalls_AsDocumented ==
    << << "load_configuration", << >> >>,
       << "load_ground_truth", << >> >>,
       << "initialize_database", << "load_configuration" >> >>,
       << "initialize_metrics", << "load_configuration" >> >>,
       << "initialize_agent", << "load_configuration" >> >>,
       << "evaluate_questions", << "load_ground_truth", "initialize_metrics",
                                   "initialize_agent", "initialize_database" >> >>,
       << "aggregate_results", << "evaluate_questions" >> >>,
       << "generate_report", << "aggregate_results" >> >>,
       << "save_results", << "evaluate_questions", "aggregate_results",
                             "generate_report" >> >>,
       << "cleanup_resources", << "initialize_database" >> >> >>

\* the add_task calls of create_evaluation_pipeline, in source order:
\* << name, depends_on >>
PipelineCalls ==
    << << "load_configuration", << >> >>,
       << "load_ground_truth", << >> >>,
       << "initialize_database", << "load_configuration" >> >>,
       << "initialize_metrics", << "load_configuration" >> >>,
       << "initialize_agent", << "load_configuration" >> >>,
       << "evaluate_questions", << "load_ground_truth", "initialize_metrics",
                                   "initialize_agent", "initialize_database" >> >>,
       << "aggregate_results", << "evaluate_questions" >> >>,
       << "generate_report", << "aggregate_results", "evaluate_questions" >> >>,
       << "save_results", << "evaluate_questions", "aggregate_results",
                             "generate_report", "load_configuration",
                             "initialize_agent", "initialize_database" >> >>,
       << "cleanup_resources", << "initialize_database", "save_results" >> >> >>

\* create_evaluation_pipeline has returned the DAG
PipelineBuilt == Cardinality(DOMAIN tasks) = Len(PipelineCalls)

\* the next dag.add_task(...) of create_evaluation_pipeline: add_task as in
\* base.py; an exception ends create_evaluation_pipeline
PipelineAddTask ==
    /\ Building
    /\ raised = NoException
    /\ ~PipelineBuilt
    /\ LET call == PipelineCalls[Cardinality(DOMAIN tasks) + 1]
           name == call[1]
           depends_on == call[2]
       IN IF name \in DOMAIN tasks
          THEN /\ raised' = "ValueError: already exists"
               /\ UNCHANGED << tasks, graph >>
          ELSE IF \E i \in 1..Len(depends_on) : depends_on[i] \notin DOMAIN tasks
          THEN /\ raised' = "ValueError: dependency not found"
               /\ UNCHANGED << tasks, graph >>
          ELSE /\ raised' = NoException
               /\ tasks' = DictSet(tasks, name, TaskDefinition(name, depends_on))
               /\ graph' = GraphAddEdgesFrom(GraphAddNode(graph, name),
                                             depends_on, name)
    /\ UNCHANGED << results, pc, execution_order, idx, initial_data,
                    task_inputs, calls >>

\* the pipeline is built, then run: dag.execute() on the returned DAG
PipelineNext ==
    \/ PipelineAddTask /\ UNCHANGED << evars, mvars >>
    \/ PipelineBuilt /\ ExecuteStart /\ UNCHANGED << evars, mvars >>
    \/ PrepareInputs /\ UNCHANGED << evars, mvars >>
    \/ RunTask /\ UNCHANGED << evars, mvars >>
    \/ ExecuteReturn /\ UNCHANGED << evars, mvars >>

PipelineSpec == InitDAG /\ [][PipelineNext]_allvars

\* ======================================================================
\* Properties of EvaluationDAG
\* ======================================================================
Deps(t) == Range(tasks[t].depends_on)

CallSet == Range(calls)

Called(t) == \E c \in CallSet : c.task = t

\* the dependencies of t that had a failed TaskResult in res
FailedDeps(t, res) == { d \in Deps(t) : d \in DOMAIN res /\ ~res[d].success }

Position(order, t) == CHOOSE i \in 1..Len(order) : order[i] = t

\* g has a cycle: some edge leads back to where it starts
HasCycle(g) == \E e \in Range(g.edges) : Reaches(g, e[2], e[1])

\* C1: a task one of whose declared dependencies has a failed TaskResult in
\* the current run is never called in that run.
C1_NoCallAfterFailedDependency ==
    \A c \in CallSet : FailedDeps(c.task, c.results_before) = {}

\* C2: when execute() returns, every task with a failed dependency has a
\* failed TaskResult whose error is the dependency failure of one of its
\* failed dependencies.
C2_DependentRecordedAsDependencyFailure ==
    pc = "summary" =>
        \A t \in DOMAIN tasks :
            FailedDeps(t, results) # {} =>
                /\ t \in DOMAIN results
                /\ ~results[t].success
                /\ \E d \in FailedDeps(t, results) :
                        results[t].error = DependencyFailed(d)

\* C3: when execute() returns, self.results holds a TaskResult for every
\* registered task and for nothing else, each filed under its own name.
C3_OneResultPerTask ==
    pc = "summary" =>
        /\ DOMAIN results = DOMAIN tasks
        /\ \A t \in DOMAIN results : results[t].task_name = t

C3_Witness ==
    /\ pc = "summary"
    /\ Cardinality(DOMAIN tasks) >= 3
    /\ \E c \in CallSet : c.outcome.raises
    /\ \E t \in DOMAIN results : results[t].success

\* C4: when a task's executable is called, and whenever a task has a
\* TaskResult, every declared dependency of the task has a TaskResult of
\* the current run.
C4_DependenciesHaveResultsFirst ==
    /\ \A c \in CallSet : Deps(c.task) \subseteq DOMAIN c.results_before
    /\ \A t \in DOMAIN results : Deps(t) \subseteq DOMAIN results

C4_Witness ==
    /\ pc = "invoke"
    /\ Len(tasks[execution_order[idx]].depends_on) = 2
    /\ \E c \in CallSet : c.outcome.raises

\* C5: an exception of an executable is recorded as a failed TaskResult
\* carrying its message, no exception leaves execute(), the loop goes on to
\* the remaining tasks, and a task none of whose dependencies failed is
\* called.
C5_ExceptionIsolated ==
    /\ (pc # "idle" \/ calls # <<>>) => raised = NoException
    /\ \A c \in CallSet :
          /\ c.task \in DOMAIN results
          /\ c.outcome.raises =>
                results[c.task] = TaskResult(c.task, FALSE, None, c.outcome.value)
    /\ (\E c \in CallSet : c.outcome.raises) =>
          \/ pc \in {"prepare", "invoke"} /\ idx <= Len(execution_order)
          \/ pc = "summary" /\ idx = Len(execution_order) + 1
          \/ pc = "idle" /\ DOMAIN results = DOMAIN tasks
    /\ pc = "summary" =>
          \A t \in DOMAIN tasks : FailedDeps(t, results) = {} => Called(t)

C5_Witness ==
    /\ pc = "summary"
    /\ \E c1 \in CallSet, c2 \in CallSet :
          /\ c1.outcome.raises
          /\ c1.task \in DOMAIN c2.results_before
          /\ FailedDeps(c2.task, results) = {}
          /\ results[c2.task].success

ValueErrors == { "ValueError: already exists", "ValueError: dependency not found" }

\* C6: add_task with a dependency name that is not registered (the new
\* task's own name included) raises and changes neither the task table nor
\* the graph; so every dependency of a registered task is another
\* registered task.  (The action reads: a step either raises ValueError
\* and keeps tasks and graph, or it is no add_task with an unregistered
\* dependency.)
C6_UnknownDependencyRejected ==
    /\ [](\A t \in DOMAIN tasks : Deps(t) \subseteq (DOMAIN tasks) \ {t})
    /\ [][\/ /\ raised' \in ValueErrors
             /\ tasks' = tasks
             /\ graph' = graph
          \/ \A args \in AddTaskArgs :
                ~(/\ \E d \in Range(args[2]) : d \notin DOMAIN tasks
                  /\ AddTask(args[1], args[2]))]_vars

C6_Witness ==
    /\ raised = "ValueError: dependency not found"
    /\ \E t \in DOMAIN tasks : tasks[t].depends_on # <<>>
    /\ Cardinality(DOMAIN tasks) < Cardinality(TaskNames)

\* C7: add_task with a name that is already registered raises and leaves
\* the task table and the graph as they were.  (A step either raises
\* "already exists" and keeps tasks and graph, or it is no add_task with a
\* registered name.)
C7_DuplicateNameRejected ==
    [][\/ /\ raised' = "ValueError: already exists"
          /\ tasks' = tasks
          /\ graph' = graph
       \/ \A args \in AddTaskArgs :
             ~(args[1] \in DOMAIN tasks /\ AddTask(args[1], args[2]))]_vars

C7_Witness ==
    /\ raised = "ValueError: already exists"
    /\ \E t \in DOMAIN tasks : tasks[t].depends_on # <<>>

\* C8: when the graph has a cycle, validate() is false and execute() raises
\* without starting the loop, so no executable is called.  (A step of
\* add_task raises ValueError or changes tasks; the first two conjuncts of
\* the action only spare the evaluation of ExecuteStart on such steps.)
C8_CycleRefused ==
    /\ [](HasCycle(graph) => ~validate /\ pc = "idle")
    /\ [][(/\ raised' \notin ValueErrors
           /\ tasks' = tasks
           /\ ExecuteStart
           /\ HasCycle(graph))
            => /\ raised' = "RuntimeError: invalid DAG"
               /\ pc' = "idle"
               /\ calls' = <<>>
               /\ results' = results]_vars

C8_Witness ==
    /\ HasCycle(graph)
    /\ raised = "RuntimeError: invalid DAG"
    /\ Len(graph.nodes) >= 2
    /\ \A e \in Range(graph.edges) : e[1] # e[2]

\* C9: for an acyclic graph the execution order holds every registered task
\* exactly once, each after all of its declared dependencies.
C9_ExecutionOrderIsTopological ==
    validate =>
        LET order == get_execution_order
        IN /\ Len(order) = Cardinality(DOMAIN tasks)
           /\ Range(order) = DOMAIN tasks
           /\ \A t \in DOMAIN tasks : \A d \in Deps(t) :
                 /\ d \in Range(order)
                 /\ Position(order, d) < Position(order, t)

C9_Witness ==
    /\ Cardinality(DOMAIN tasks) >= 3
    /\ \E t \in DOMAIN tasks : tasks[t].depends_on # <<>>
    /\ get_execution_order # graph.nodes

\* the keyword arguments the claim C10 describes
ExpectedInputs(t, init, res) ==
    [k \in (DOMAIN init) \cup Deps(t) |->
        IF k \in Deps(t) THEN res[k].data ELSE init[k]]

\* C10: a task all of whose dependencies succeeded is called with the
\* initial inputs plus one entry per declared dependency holding that
\* dependency's value; the dependency's value wins over an initial input of
\* the same name and no other task's value is passed.
C10_InputsAreInitialPlusDependencies ==
    pc # "idle" =>
        \A c \in CallSet :
            (/\ Deps(c.task) \subseteq DOMAIN c.results_before
             /\ FailedDeps(c.task, c.results_before) = {})
            => c.inputs = ExpectedInputs(c.task, initial_data, c.results_before)

C10_Witness ==
    /\ pc # "idle"
    /\ \E c \in CallSet :
          /\ "a" \in Deps(c.task)
          /\ "a" \in DOMAIN initial_data
          /\ FailedDeps(c.task, c.results_before) = {}
          /\ c.inputs["a"] = << "out", "a" >>
          /\ c.inputs["cfg"] = << "init" >>
          /\ DOMAIN c.results_before \ Deps(c.task) # {}

\* C11: within one run of execute() a stored TaskResult is never replaced
\* or changed.
C11_ResultRecordedOnce ==
    [][(pc \in {"prepare", "invoke"}) =>
          (\A t \in DOMAIN results :
              t \in DOMAIN results' /\ results'[t] = results[t])]_vars

\* ======================================================================
\* Part 2: evaluate_questions and aggregate_results (evaluation/dag/tasks.py)
\*
\* An example is known by its position in the list.  What the agent does
\* with its question is part of the input: it returns the reference
\* statement ("match"), a statement the data source rejects ("invalid"),
\* no statement ("empty"), or it raises ("raise").  Scores are counted in
\* hundredths, durations in ticks.
\* ======================================================================
MaxQuestions == 2      \* examples in one batch

ScoreOne == 100        \* the score 1.0
AccuracyThreshold == 80   \* the 0.8 of aggregate_results

AgentOutcomes == {"match", "invalid", "empty", "raise"}

\* metric.name of the metric objects; "Raising" is a metric object whose
\* evaluate raises to its caller
MetricLists == { << "EM", "EX" >>, << "Raising", "EX" >> }

QuestionLists ==
    UNION { [1..n -> [agent : AgentOutcomes]] : n \in 0..MaxQuestions }

\* time.time() - start_time of example q
ExecutionTime(q) == q

NoLocal ==
    [predicted_sql |-> "", agent_success |-> FALSE, execution_time |-> 0,
     agent_raised |-> FALSE, snap |-> ZeroStats, count |-> 0, mi |-> 0,
     metrics |-> EmptyDict, score |-> 0]

\* ------------------------------------------------ the data source handle
\* SimpleDatabaseConnection.execute_query on the one psycopg2 connection:
\* no autocommit, no rollback, so a statement that fails leaves the
\* connection in a failed transaction and every later statement is refused
ExecuteQuery(sql, conn) ==
    IF conn = "failed"
    THEN [error |-> "InFailedSqlTransaction", connection |-> "failed"]
    ELSE IF sql = "invalid"
         THEN [error |-> "UndefinedColumn", connection |-> "failed"]
         ELSE [error |-> "None", connection |-> conn]

\* --------------------------------------------------------- the metrics
MetricOutcome(raises, score, error, conn) ==
    [raises |-> raises, score |-> score, is_correct |-> score = ScoreOne,
     error |-> error, connection |-> conn]

\* metric.evaluate(context) for the metric named m; predicted is
\* context.predicted_sql, conn the state of context.database_connection
Evaluate(m, predicted, conn) ==
    CASE m = "EM" ->
            MetricOutcome(FALSE, IF predicted = "match" THEN ScoreOne ELSE 0,
                          "None", conn)
      [] m = "EX" ->
            IF predicted = ""
            THEN MetricOutcome(FALSE, 0, "None", conn)
            ELSE LET gt == ExecuteQuery("reference", conn)
                     pr == ExecuteQuery(predicted, gt.connection)
                 IN  IF gt.error # "None"
                     THEN MetricOutcome(FALSE, 0, "Ground truth query failed",
                                        pr.connection)
                     ELSE IF pr.error # "None"
                          THEN MetricOutcome(FALSE, 0, "Predicted query failed",
                                             pr.connection)
                          ELSE MetricOutcome(FALSE, ScoreOne, "None",
                                             pr.connection)
      [] OTHER -> MetricOutcome(TRUE, 0, "metric raised", conn)

MetricEntry(out) ==
    [score |-> out.score, is_correct |-> out.is_correct, error |-> out.error]

QuestionResults(q, l) ==
    [question_id |-> q, predicted_sql |-> l.predicted_sql,
     agent_success |-> l.predicted_sql # "", metrics |-> l.metrics]

\* ------------------------------------------- evaluate_single_question
Holds(t) == { l \in DOMAIN locks : locks[l] = t }

Running == { q \in DOMAIN wpc : wpc[q] \notin {"queued", "done", "collecting",
                                                "collected"} }

\* the loop "for metric in metrics" moves on to metric number i
AfterMetric(q, i) == IF i <= Len(metrics) THEN "metric" ELSE "count_enter"

\* a worker thread of the pool takes the next submitted example
WorkerStart(q) ==
    /\ epc = "pool"
    /\ wpc[q] = "queued"
    /\ \A p \in 1..(q - 1) : wpc[p] # "queued"
    /\ Cardinality(Running) < max_workers
    /\ wpc' = [wpc EXCEPT ![q] = "agent"]
    /\ UNCHANGED << questions, metrics, max_workers, epc, wlocal, locks,
                    agent_stats, metric_scores, detailed_results,
                    completed_count, connection, aggregated >>

\* lines 398-411 and 422-423 (272-286 and 294-295 of the sequential loop):
\* the locals after agent.process_query returned or raised
AgentLocal(q) ==
    LET o == questions[q].agent
    IN  [NoLocal EXCEPT !.predicted_sql =
                            IF o \in {"match", "invalid"} THEN o ELSE "",
                        !.agent_success = o \in {"match", "invalid"},
                        !.agent_raised = (o = "raise"),
                        !.execution_time = ExecutionTime(q)]

AgentCall(q) ==
    /\ wpc[q] = "agent"
    /\ wlocal' = [wlocal EXCEPT ![q] = AgentLocal(q)]
    /\ wpc' = [wpc EXCEPT ![q] = "stats_enter"]
    /\ UNCHANGED << questions, metrics, max_workers, epc, locks, agent_stats,
                    metric_scores, detailed_results, completed_count,
                    connection, aggregated >>

\* "with stats_lock:" entered without waiting for the lock
StatsAcquire_NoLock(q) ==
    /\ wpc[q] = "stats_enter"
    /\ locks' = [locks EXCEPT !.stats_lock = Worker(q)]
    /\ wlocal' = [wlocal EXCEPT ![q].snap = agent_stats]
    /\ wpc' = [wpc EXCEPT ![q] = "stats_update"]
    /\ UNCHANGED << questions, metrics, max_workers, epc, agent_stats,
                    metric_scores, detailed_results, completed_count,
                    connection, aggregated >>

\* lines 414 and 424: "with stats_lock:" and the reads of the "+="
StatsAcquire(q) ==
    /\ wpc[q] = "stats_enter"
    /\ locks.stats_lock = Free
    /\ locks' = [locks EXCEPT !.stats_lock = Worker(q)]
    /\ wlocal' = [wlocal EXCEPT ![q].snap = agent_stats]
    /\ wpc' = [wpc EXCEPT ![q] = "stats_update"]
    /\ UNCHANGED << questions, metrics, max_workers, epc, agent_stats,
                    metric_scores, detailed_results, completed_count,
                    connection, aggregated >>

\* agent_success and predicted_sql.strip() (line 416), never after a raise
AgentSucceeded(l) ==
    ~l.agent_raised /\ l.agent_success /\ l.predicted_sql # ""

\* the counters without the else branch of lines 418-420: an answer without
\* SQL is counted nowhere
StatsAfter_NoElse(snap, l) ==
    [success_count |-> snap.success_count + (IF AgentSucceeded(l) THEN 1 ELSE 0),
     failure_count |-> snap.failure_count + (IF l.agent_raised THEN 1 ELSE 0),
     total_time |-> snap.total_time + l.execution_time]

\* the counters after lines 415-420 or 425-426, from the values read
StatsAfter(snap, l) ==
    [success_count |-> snap.success_count + (IF AgentSucceeded(l) THEN 1 ELSE 0),
     failure_count |-> snap.failure_count + (IF AgentSucceeded(l) THEN 0 ELSE 1),
     total_time |-> snap.total_time + l.execution_time]

\* stats_lock.acquire() with no release after the update
StatsUpdate_KeepLock(q) ==
    /\ wpc[q] = "stats_update"
    /\ agent_stats' = StatsAfter(wlocal[q].snap, wlocal[q])
    /\ wlocal' = [wlocal EXCEPT ![q] =
           [@ EXCEPT !.predicted_sql =
                         IF AgentSucceeded(wlocal[q]) THEN @ ELSE "",
                     !.snap = ZeroStats,
                     !.mi = 1]]
    /\ wpc' = [wpc EXCEPT ![q] = AfterMetric(q, 1)]
    /\ UNCHANGED << questions, metrics, max_workers, epc, locks, metric_scores,
                    detailed_results, completed_count, connection,
                    aggregated >>

\* lines 415-420 and 425-427: the writes of the "+=", then the lock is left
StatsUpdate(q) ==
    /\ wpc[q] = "stats_update"
    /\ agent_stats' = StatsAfter(wlocal[q].snap, wlocal[q])
    /\ locks' = [locks EXCEPT !.stats_lock = Free]
    /\ wlocal' = [wlocal EXCEPT ![q] =
           [@ EXCEPT !.predicted_sql =
                         IF AgentSucceeded(wlocal[q]) THEN @ ELSE "",
                     !.snap = ZeroStats,
                     !.mi = 1]]
    /\ wpc' = [wpc EXCEPT ![q] = AfterMetric(q, 1)]
    /\ UNCHANGED << questions, metrics, max_workers, epc, metric_scores,
                    detailed_results, completed_count, connection,
                    aggregated >>

\* lines 450-457 and 463-468: metric.evaluate(context) and the entry of
\* question_results['metrics']
MetricEvaluate(q) ==
    /\ wpc[q] = "metric"
    /\ LET l == wlocal[q]
           m == metrics[l.mi]
           out == Evaluate(m, l.predicted_sql, connection)
           append == ~out.raises /\ l.predicted_sql # ""
       IN  /\ connection' = out.connection
           /\ wlocal' = [wlocal EXCEPT ![q] =
                  [@ EXCEPT !.metrics = DictSet(@, m, MetricEntry(out)),
                            !.score = IF append THEN out.score ELSE 0,
                            !.mi = IF append THEN @ ELSE @ + 1]]
           /\ wpc' = [wpc EXCEPT ![q] =
                  IF append THEN "scores_enter" ELSE AfterMetric(q, l.mi + 1)]
    /\ UNCHANGED << questions, metrics, max_workers, epc, locks, agent_stats,
                    metric_scores, detailed_results, completed_count,
                    aggregated >>

\* line 460: "with results_lock:"
ScoresAcquire(q) ==
    /\ wpc[q] = "scores_enter"
    /\ locks.results_lock = Free
    /\ locks' = [locks EXCEPT !.results_lock = Worker(q)]
    /\ wpc' = [wpc EXCEPT ![q] = "scores_append"]
    /\ UNCHANGED << questions, metrics, max_workers, epc, wlocal, agent_stats,
                    metric_scores, detailed_results, completed_count,
                    connection, aggregated >>

\* line 461: the append, then the lock is left
ScoresAppend(q) ==
    /\ wpc[q] = "scores_append"
    /\ LET l == wlocal[q]
           m == metrics[l.mi]
       IN  /\ metric_scores' = [metric_scores EXCEPT ![m] = Append(@, l.score)]
           /\ wlocal' = [wlocal EXCEPT ![q] =
                  [@ EXCEPT !.score = 0, !.mi = @ + 1]]
           /\ wpc' = [wpc EXCEPT ![q] = AfterMetric(q, l.mi + 1)]
    /\ locks' = [locks EXCEPT !.results_lock = Free]
    /\ UNCHANGED << questions, metrics, max_workers, epc, agent_stats,
                    detailed_results, completed_count, connection,
                    aggregated >>

\* line 471: "with count_lock:" and the read of completed_count += 1
CountAcquire(q) ==
    /\ wpc[q] = "count_enter"
    /\ locks.count_lock = Free
    /\ locks' = [locks EXCEPT !.count_lock = Worker(q)]
    /\ wlocal' = [wlocal EXCEPT ![q].count = completed_count]
    /\ wpc' = [wpc EXCEPT ![q] = "count_update"]
    /\ UNCHANGED << questions, metrics, max_workers, epc, agent_stats,
                    metric_scores, detailed_results, completed_count,
                    connection, aggregated >>

\* lines 472-476: the write, the lock is left, question_results returned
CountUpdate(q) ==
    /\ wpc[q] = "count_update"
    /\ completed_count' = wlocal[q].count + 1
    /\ locks' = [locks EXCEPT !.count_lock = Free]
    /\ wlocal' = [wlocal EXCEPT ![q].count = 0]
    /\ wpc' = [wpc EXCEPT ![q] = "done"]
    /\ UNCHANGED << questions, metrics, max_workers, epc, agent_stats,
                    metric_scores, detailed_results, connection, aggregated >>

\* ------------------------------------------------- the calling thread
\* lines 226-246 with 378-392 / 257-266 and line 481: the mode is chosen,
\* the collections are created, every example is submitted to the pool
EvaluateQuestions ==
    /\ epc = "start"
    /\ epc' = IF max_workers > 1 THEN "pool" ELSE "loop"
    /\ metric_scores' = [m \in Range(metrics) |-> << >>]
    /\ agent_stats' = ZeroStats
    /\ detailed_results' = << >>
    /\ completed_count' = 0
    /\ UNCHANGED << questions, metrics, max_workers, wpc, wlocal, locks,
                    connection, aggregated >>

\* lines 484-487: as_completed hands over a finished future, the calling
\* thread enters "with results_lock:"
CollectAcquire(q) ==
    /\ epc = "pool"
    /\ wpc[q] = "done"
    /\ locks.results_lock = Free
    /\ locks' = [locks EXCEPT !.results_lock = MainThread]
    /\ wpc' = [wpc EXCEPT ![q] = "collecting"]
    /\ epc' = "append"
    /\ UNCHANGED << questions, metrics, max_workers, wlocal, agent_stats,
                    metric_scores, detailed_results, completed_count,
                    connection, aggregated >>

\* line 488: results.append(result), then the lock is left
CollectAppend(q) ==
    /\ epc = "append"
    /\ wpc[q] = "collecting"
    /\ detailed_results' = Append(detailed_results, QuestionResults(q, wlocal[q]))
    /\ locks' = [locks EXCEPT !.results_lock = Free]
    /\ wpc' = [wpc EXCEPT ![q] = "collected"]
    /\ wlocal' = [wlocal EXCEPT ![q] = NoLocal]
    /\ epc' = "pool"
    /\ UNCHANGED << questions, metrics, max_workers, agent_stats,
                    metric_scores, completed_count, connection, aggregated >>

\* lines 493-503: the pool is left, the summary is printed (it divides by
\* total), the dictionary is returned
ParallelReturn ==
    /\ epc = "pool"
    /\ \A q \in DOMAIN wpc : wpc[q] = "collected"
    /\ epc' = IF Len(questions) = 0 THEN "ZeroDivisionError" ELSE "returned"
    /\ UNCHANGED << questions, metrics, max_workers, wpc, wlocal, locks,
                    agent_stats, metric_scores, detailed_results,
                    completed_count, connection, aggregated >>

\* the try/except put around the loop instead of inside it: the first
\* metric that raises ends the loop
RECURSIVE SequentialMetrics_StopOnRaise(_, _, _, _, _)
SequentialMetrics_StopOnRaise(predicted, i, conn, entries, scores) ==
    IF i > Len(metrics)
    THEN [metrics |-> entries, metric_scores |-> scores, connection |-> conn]
    ELSE LET m == metrics[i]
             out == Evaluate(m, predicted, conn)
         IN  IF out.raises
             THEN [metrics |-> DictSet(entries, m, MetricEntry(out)),
                   metric_scores |-> scores, connection |-> conn]
             ELSE SequentialMetrics_StopOnRaise(
                      predicted, i + 1, out.connection,
                      DictSet(entries, m, MetricEntry(out)),
                      IF predicted # ""
                      THEN [scores EXCEPT ![m] = Append(@, out.score)]
                      ELSE scores)

\* lines 321-339: the loop "for metric in metrics" from metric number i on
RECURSIVE SequentialMetrics(_, _, _, _, _)
SequentialMetrics(predicted, i, conn, entries, scores) ==
    IF i > Len(metrics)
    THEN [metrics |-> entries, metric_scores |-> scores, connection |-> conn]
    ELSE LET m == metrics[i]
             out == Evaluate(m, predicted, conn)
         IN  SequentialMetrics(
                 predicted, i + 1, out.connection,
                 DictSet(entries, m, MetricEntry(out)),
                 IF ~out.raises /\ predicted # ""
                 THEN [scores EXCEPT ![m] = Append(@, out.score)]
                 ELSE scores)

\* lines 268-341: one pass of "for i, question_data in enumerate(questions, 1)"
SequentialQuestion ==
    /\ epc = "loop"
    /\ Len(detailed_results) < Len(questions)
    /\ LET q == Len(detailed_results) + 1
           l == AgentLocal(q)
           predicted == IF AgentSucceeded(l) THEN l.predicted_sql ELSE ""
           r == SequentialMetrics(predicted, 1, connection, EmptyDict,
                                  metric_scores)
       IN  /\ agent_stats' = StatsAfter(agent_stats, l)
           /\ metric_scores' = r.metric_scores
           /\ connection' = r.connection
           /\ detailed_results' =
                  Append(detailed_results,
                         QuestionResults(q, [l EXCEPT !.predicted_sql = predicted,
                                                      !.metrics = r.metrics]))
    /\ UNCHANGED << questions, metrics, max_workers, epc, wpc, wlocal, locks,
                    completed_count, aggregated >>

\* lines 343-352: the summary is printed (it divides by total), the
\* dictionary is returned
SequentialReturn ==
    /\ epc = "loop"
    /\ Len(detailed_results) = Len(questions)
    /\ epc' = IF Len(questions) = 0 THEN "ZeroDivisionError" ELSE "returned"
    /\ UNCHANGED << questions, metrics, max_workers, wpc, wlocal, locks,
                    agent_stats, metric_scores, detailed_results,
                    completed_count, connection, aggregated >>

\* ----------------------------------------------------- aggregate_results
RECURSIVE SumSeq(_)
SumSeq(s) == IF s = << >> THEN 0 ELSE Head(s) + SumSeq(Tail(s))

CountIf(s, P(_)) == Cardinality({ i \in 1..Len(s) : P(s[i]) })

Ratio(n, d) == [num |-> n, den |-> d]

RatioEq(a, b) == a.num * b.den = b.num * a.den

MeetsThreshold(s) == s >= AccuracyThreshold

IsPerfect(s) == s = ScoreOne

\* lines 523-544: the statistics of one metric from its list of scores
MetricStatistics(scores) ==
    IF scores # << >>
    THEN [average_score |-> Ratio(SumSeq(scores), Len(scores)),
          accuracy |-> Ratio(CountIf(scores, MeetsThreshold), Len(scores)),
          perfect_matches |-> CountIf(scores, IsPerfect),
          total_evaluated |-> Len(scores)]
    ELSE [average_score |-> Ratio(0, 1), accuracy |-> Ratio(0, 1),
          perfect_matches |-> 0, total_evaluated |-> 0]

AggregateResults ==
    /\ epc = "returned"
    /\ aggregated' = [m \in DOMAIN metric_scores |->
                          MetricStatistics(metric_scores[m])]
    /\ epc' = "aggregated"
    /\ UNCHANGED << questions, metrics, max_workers, wpc, wlocal, locks,
                    agent_stats, metric_scores, detailed_results,
                    completed_count, connection >>

\* ------------------------------------------------------ specifications
EvalInit ==
    /\ questions \in QuestionLists
    /\ metrics \in MetricLists
    /\ max_workers \in 1..MaxQuestions
    /\ epc = "start"
    /\ wpc = [q \in DOMAIN questions |-> "queued"]
    /\ wlocal = [q \in DOMAIN questions |-> NoLocal]
    /\ locks = [stats_lock |-> Free, results_lock |-> Free, count_lock |-> Free]
    /\ agent_stats = ZeroStats
    /\ metric_scores = EmptyDict
    /\ detailed_results = << >>
    /\ completed_count = 0
    /\ connection = "ready"
    /\ aggregated = NoAggregate

EvalNext ==
    \/ EvaluateQuestions /\ UNCHANGED << vars, mvars >>
    \/ \E q \in DOMAIN wpc : WorkerStart(q) /\ UNCHANGED << vars, mvars >>
    \/ \E q \in DOMAIN wpc : AgentCall(q) /\ UNCHANGED << vars, mvars >>
    \/ \E q \in DOMAIN wpc : StatsAcquire(q) /\ UNCHANGED << vars, mvars >>
    \/ \E q \in DOMAIN wpc : StatsUpdate(q) /\ UNCHANGED << vars, mvars >>
    \/ \E q \in DOMAIN wpc : MetricEvaluate(q) /\ UNCHANGED << vars, mvars >>
    \/ \E q \in DOMAIN wpc : ScoresAcquire(q) /\ UNCHANGED << vars, mvars >>
    \/ \E q \in DOMAIN wpc : ScoresAppend(q) /\ UNCHANGED << vars, mvars >>
    \/ \E q \in DOMAIN wpc : CountAcquire(q) /\ UNCHANGED << vars, mvars >>
    \/ \E q \in DOMAIN wpc : CountUpdate(q) /\ UNCHANGED << vars, mvars >>
    \/ \E q \in DOMAIN wpc : CollectAcquire(q) /\ UNCHANGED << vars, mvars >>
    \/ \E q \in DOMAIN wpc : CollectAppend(q) /\ UNCHANGED << vars, mvars >>
    \/ ParallelReturn /\ UNCHANGED << vars, mvars >>
    \/ SequentialQuestion /\ UNCHANGED << vars, mvars >>
    \/ SequentialReturn /\ UNCHANGED << vars, mvars >>
    \/ AggregateResults /\ UNCHANGED << vars, mvars >>

InitEval == Init /\ EvalInit /\ MetricIdle

EvalSpec == InitEval /\ [][EvalNext]_allvars

\* a thread that can take a step is scheduled: the pool threads and the
\* calling thread are operating system threads
EvalFairSpec == InitEval /\ [][EvalNext]_allvars /\ WF_allvars(EvalNext)

\* ------------------------------------------------------- SQLNormalizer
IsWhitespace(c) == c \in {" ", "\n"}

IsComment(c) == c = "/*c*/"

\* token.value.upper() for a keyword, token.value otherwise
normalize_token(c) == IF c = "select" THEN "SELECT" ELSE c

RECURSIVE LStrip(_)
LStrip(s) ==
    IF s # << >> /\ IsWhitespace(Head(s)) THEN LStrip(Tail(s)) ELSE s

RECURSIVE RStrip(_)
RStrip(s) ==
    IF s # << >> /\ IsWhitespace(s[Len(s)])
    THEN RStrip(SubSeq(s, 1, Len(s) - 1))
    ELSE s

\* str.strip()
StrStrip(s) == RStrip(LStrip(s))

\* re.sub(r'\s+', ' ', s)
RECURSIVE ReSubWhitespace(_)
ReSubWhitespace(s) ==
    IF s = << >> THEN << >>
    ELSE IF IsWhitespace(Head(s))
         THEN << " " >> \o ReSubWhitespace(LStrip(s))
         ELSE << Head(s) >> \o ReSubWhitespace(Tail(s))

\* str.rstrip(';')
RECURSIVE RStripTerminator(_)
RStripTerminator(s) ==
    IF s # << >> /\ s[Len(s)] = ";"
    THEN RStripTerminator(SubSeq(s, 1, Len(s) - 1))
    ELSE s

\* sqlparse.parse(sql)[0]: the first statement, up to and with its terminator
FirstStatement(s) ==
    LET ends == { i \in 1..Len(s) : s[i] = ";" }
    IN  IF ends = { } THEN s
        ELSE SubSeq(s, 1, CHOOSE i \in ends : \A j \in ends : i <= j)

\* the loop of _normalize_statement over statement.tokens
RECURSIVE NormalizedTokens(_, _)
NormalizedTokens(toks, acc) ==
    IF toks = << >> THEN acc
    ELSE LET c == Head(toks)
         IN  IF IsComment(c) THEN NormalizedTokens(Tail(toks), acc)
             ELSE IF IsWhitespace(c)
                  THEN NormalizedTokens(
                           Tail(toks),
                           IF acc # << >> /\ acc[Len(acc)] # " "
                           THEN Append(acc, " ") ELSE acc)
                  ELSE NormalizedTokens(Tail(toks),
                                        Append(acc, normalize_token(c)))

\* lines 78-82: join, strip, collapse whitespace, strip the terminator
normalize_statement(statement) ==
    RStripTerminator(ReSubWhitespace(StrStrip(NormalizedTokens(statement, << >>))))

RemoveComments(s) == SelectSeq(s, LAMBDA c : ~IsComment(c))

basic_normalize(sql_query) ==
    RStripTerminator(ReSubWhitespace(StrStrip(RemoveComments(sql_query))))

\* parse_fails: sqlparse raises on the statements of this run
normalize_sql(sql_query, parse_fails) ==
    IF sql_query = None \/ sql_query = << >> \/ StrStrip(sql_query) = << >>
    THEN << >>
    ELSE IF parse_fails
         THEN basic_normalize(sql_query)
         ELSE normalize_statement(FirstStatement(sql_query))

\* ---------------------------------------------------------- BaseMetric
ComponentThreshold == 80   \* overall_score >= 0.8

create_result(name, score, is_correct, details, error_message) ==
    [raised |-> FALSE, metric_name |-> name, score |-> score,
     is_correct |-> is_correct, details |-> details,
     error_message |-> error_message]

\* how an evaluation function ends: it returns a MetricResult or raises
Return(result) == [raises |-> FALSE, message |-> None, result |-> result]

Raise(message) == [raises |-> TRUE, message |-> message, result |-> NoResult]

\* the exception is passed on to the caller
safe_evaluate_Reraise(name, inner) ==
    IF inner.raises
    THEN [raised |-> TRUE, metric_name |-> name, score |-> 0,
          is_correct |-> FALSE, details |-> [error |-> inner.message],
          error_message |-> inner.message]
    ELSE inner.result

safe_evaluate(name, inner) ==
    IF inner.raises
    THEN create_result(name, 0, FALSE, [error |-> inner.message],
                       << "Error in", name >> \o inner.message)
    ELSE inner.result

\* "not s" for a statement
IsEmptySql(s) == s = None \/ s = << >>

\* ---------------------------------------------------- ExactMatchMetric
\* the comparison made on the statements as given
evaluate_exact_match_Raw(c) ==
    IF IsEmptySql(c.ground_truth_sql) \/ IsEmptySql(c.predicted_sql)
    THEN Return(create_result("Exact Match (EM)", 0, FALSE,
                              [reason |-> "Empty or missing SQL query"], None))
    ELSE LET is_exact_match == c.ground_truth_sql = c.predicted_sql
         IN  Return(create_result("Exact Match (EM)",
                                  IF is_exact_match THEN ScoreOne ELSE 0,
                                  is_exact_match,
                                  [match |-> is_exact_match], None))

\* c.fault: the exception _analyze_differences raises, if it does
evaluate_exact_match(c) ==
    IF IsEmptySql(c.ground_truth_sql) \/ IsEmptySql(c.predicted_sql)
    THEN Return(create_result("Exact Match (EM)", 0, FALSE,
                              [reason |-> "Empty or missing SQL query"], None))
    ELSE LET gt_normalized == normalize_sql(c.ground_truth_sql, c.parse_fails)
             pred_normalized == normalize_sql(c.predicted_sql, c.parse_fails)
             is_exact_match == gt_normalized = pred_normalized
         IN  IF is_exact_match
             THEN Return(create_result("Exact Match (EM)", ScoreOne, TRUE,
                                       [match |-> TRUE], None))
             ELSE IF c.fault # NoFault
                  THEN Raise(c.fault)
                  ELSE Return(create_result(
                           "Exact Match (EM)", 0, FALSE,
                           [match |-> FALSE,
                            length_difference |->
                                Len(pred_normalized) - Len(gt_normalized)],
                           None))

\* ---------------------------------------------- ExecutionAccuracyMetric
\* str.strip() of a string value
normalize_value(v) == IF v = "a " THEN "a" ELSE v

normalize_results(rows) ==
    [i \in 1..Len(rows) |-> [j \in 1..Len(rows[i]) |-> normalize_value(rows[i][j])]]

\* collections.Counter of a list of rows
Counter(rows) ==
    [r \in Range(rows) |-> Cardinality({ i \in 1..Len(rows) : rows[i] = r })]

CounterGet(c, r) == IF r \in DOMAIN c THEN c[r] ELSE 0

\* the sum of n(r) over the rows r of S
SumOver(S, n(_)) == Cardinality(UNION { {r} \X (1..n(r)) : r \in S })

Min(a, b) == IF a <= b THEN a ELSE b

Max(a, b) == IF a >= b THEN a ELSE b

\* sum((gt_counter & pred_counter).values()) / sum((gt_counter | pred_counter).values())
OverlapRatio(gt_counter, pred_counter) ==
    LET keys == DOMAIN gt_counter \cup DOMAIN pred_counter
        inter(r) == Min(CounterGet(gt_counter, r), CounterGet(pred_counter, r))
        union(r) == Max(CounterGet(gt_counter, r), CounterGet(pred_counter, r))
    IN  Ratio(SumOver(keys, inter), SumOver(keys, union))

\* the normalized lists compared as lists
compare_results_Ordered(gt_results, pred_results) ==
    LET g == IF gt_results = NoRows THEN << >> ELSE gt_results
        p == IF pred_results = NoRows THEN << >> ELSE pred_results
    IN  IF Len(g) # Len(p)
        THEN [match |-> FALSE, details |-> [size_mismatch |-> TRUE]]
        ELSE IF Len(g) = 0
             THEN [match |-> TRUE, details |-> [both_empty |-> TRUE]]
             ELSE LET results_match == normalize_results(g) = normalize_results(p)
                  IN  [match |-> results_match,
                       details |-> [normalized_match |-> results_match]]

compare_results(gt_results, pred_results) ==
    LET g == IF gt_results = NoRows THEN << >> ELSE gt_results
        p == IF pred_results = NoRows THEN << >> ELSE pred_results
    IN  IF Len(g) # Len(p)
        THEN [match |-> FALSE, details |-> [size_mismatch |-> TRUE]]
        ELSE IF Len(g) = 0
             THEN [match |-> TRUE, details |-> [both_empty |-> TRUE]]
             ELSE LET gt_counter == Counter(normalize_results(g))
                      pred_counter == Counter(normalize_results(p))
                      results_match == gt_counter = pred_counter
                  IN  IF results_match
                      THEN [match |-> TRUE,
                            details |-> [normalized_match |-> TRUE]]
                      ELSE [match |-> FALSE,
                            details |->
                                [normalized_match |-> FALSE,
                                 overlap_ratio |->
                                     OverlapRatio(gt_counter, pred_counter)]]

\* cursor.execute(f"SET statement_timeout = {self.execution_timeout * 1000}")
SetTimeout == << "SET statement_timeout = execution_timeout * 1000" >>

\* _execute_query: what it returns and the statements it sends, in order.
\* execution: what the data source does with sql_query
execute_query(sql_query, db_connection, execution) ==
    IF db_connection = "execute_query"
    THEN \* SimpleDatabaseConnection.execute_query: cursor.execute(sql)
         [rows |-> execution.rows, error |-> execution.error,
          statements |-> << sql_query >>]
    ELSE [rows |-> execution.rows,
          error |-> IF execution.error = None THEN None
                    ELSE << "Query execution error:" >> \o execution.error,
          statements |-> << SetTimeout, sql_query >>]

\* the statements one evaluation sends to the data source
execution_statements(c) ==
    IF IsEmptySql(c.ground_truth_sql) \/ IsEmptySql(c.predicted_sql)
           \/ ~c.database_connection
    THEN << >>
    ELSE execute_query(c.ground_truth_sql, c.handle, c.gt_execution).statements
             \o execute_query(c.predicted_sql, c.handle,
                              c.pred_execution).statements

\* the error of the predicted statement looked at first
evaluate_execution_PredictedFirst(c) ==
    IF IsEmptySql(c.ground_truth_sql) \/ IsEmptySql(c.predicted_sql)
    THEN Return(create_result("Execution Accuracy (EX)", 0, FALSE,
                              [reason |-> "Empty or missing SQL query"], None))
    ELSE IF ~c.database_connection
    THEN Return(create_result("Execution Accuracy (EX)", 0, FALSE,
                              [reason |-> "No database connection provided"],
                              << "Database connection required" >>))
    ELSE LET gt == execute_query(c.ground_truth_sql, c.handle, c.gt_execution)
             pred == execute_query(c.predicted_sql, c.handle, c.pred_execution)
         IN  IF pred.error # None
             THEN Return(create_result(
                      "Execution Accuracy (EX)", 0, FALSE,
                      [reason |-> "Predicted query execution failed",
                       predicted_error |-> pred.error,
                       ground_truth_executed |-> TRUE],
                      << "Predicted query failed:" >> \o pred.error))
             ELSE IF gt.error # None
             THEN Return(create_result(
                      "Execution Accuracy (EX)", 0, FALSE,
                      [reason |-> "Ground truth query execution failed",
                       ground_truth_error |-> gt.error,
                       predicted_executed |-> pred.error = None],
                      << "Ground truth query failed:" >> \o gt.error))
             ELSE IF c.fault # NoFault
             THEN Raise(c.fault)
             ELSE LET cmp == compare_results(gt.rows, pred.rows)
                  IN  Return(create_result("Execution Accuracy (EX)",
                                           IF cmp.match THEN ScoreOne ELSE 0,
                                           cmp.match,
                                           [results_match |-> cmp.match,
                                            comparison_details |-> cmp.details],
                                           None))

\* c.gt_execution, c.pred_execution: what the data source does with the two
\* statements; c.fault: the exception the comparison raises, if it does
evaluate_execution(c) ==
    IF IsEmptySql(c.ground_truth_sql) \/ IsEmptySql(c.predicted_sql)
    THEN Return(create_result("Execution Accuracy (EX)", 0, FALSE,
                              [reason |-> "Empty or missing SQL query"], None))
    ELSE IF ~c.database_connection
    THEN Return(create_result("Execution Accuracy (EX)", 0, FALSE,
                              [reason |-> "No database connection provided"],
                              << "Database connection required" >>))
    ELSE LET gt == execute_query(c.ground_truth_sql, c.handle, c.gt_execution)
             pred == execute_query(c.predicted_sql, c.handle, c.pred_execution)
         IN  IF gt.error # None
             THEN Return(create_result(
                      "Execution Accuracy (EX)", 0, FALSE,
                      [reason |-> "Ground truth query execution failed",
                       ground_truth_error |-> gt.error,
                       predicted_executed |-> pred.error = None],
                      << "Ground truth query failed:" >> \o gt.error))
             ELSE IF pred.error # None
             THEN Return(create_result(
                      "Execution Accuracy (EX)", 0, FALSE,
                      [reason |-> "Predicted query execution failed",
                       predicted_error |-> pred.error,
                       ground_truth_executed |-> TRUE],
                      << "Predicted query failed:" >> \o pred.error))
             ELSE IF c.fault # NoFault
             THEN Raise(c.fault)
             ELSE LET cmp == compare_results(gt.rows, pred.rows)
                  IN  Return(create_result("Execution Accuracy (EX)",
                                           IF cmp.match THEN ScoreOne ELSE 0,
                                           cmp.match,
                                           [results_match |-> cmp.match,
                                            comparison_details |-> cmp.details],
                                           None))

\* ---------------------------------------------------- ImprovedSQLParser
\* The tokens are those of sqlparse's lexer, which makes one keyword token
\* of GROUP BY, of ORDER BY and of a JOIN together with its modifiers.
\* Keywords: the tokens with token.ttype in tokens.Keyword
Keywords ==
    { "select", "SELECT", "FROM", "WHERE", "GROUP BY", "HAVING", "ORDER BY",
      "LIMIT", "JOIN", "LEFT JOIN", "INNER JOIN", "ON", "AS", "AND", "OR",
      "DESC" }

\* str.upper() of a keyword
Upper(token) == IF token = "select" THEN "SELECT" ELSE token

ComponentNames ==
    << "select", "from", "where", "joins", "group_by", "order_by", "having",
       "limit" >>

empty_components == [name \in Range(ComponentNames) |-> << >>]

\* lines 72-91: the component a top-level keyword switches to
ComponentOf(token_upper, current_component) ==
    CASE token_upper = "SELECT" -> "select"
      [] token_upper = "FROM" -> "from"
      [] token_upper = "WHERE" -> "where"
      [] token_upper \in { "GROUP", "GROUP BY" } -> "group_by"
      [] token_upper = "HAVING" -> "having"
      [] token_upper \in { "ORDER", "ORDER BY" } -> "order_by"
      [] token_upper = "LIMIT" -> "limit"
      [] token_upper \in { "JOIN", "INNER", "LEFT", "RIGHT", "FULL", "CROSS" }
             -> "joins"
      [] OTHER -> current_component

\* the loop over parsed.flatten(), whitespace tokens skipped (line 60); st
\* holds the loop's variables current_component, paren_depth and
\* components; a component is the sequence of the token values that the
\* code joins with one blank
RECURSIVE AdvancedLoop(_, _)
AdvancedLoop(toks, st) ==
    IF toks = << >> THEN st.components
    ELSE LET token == Head(toks)
             depth == IF token = "(" THEN st.paren_depth + 1
                      ELSE IF token = ")" THEN st.paren_depth - 1
                      ELSE st.paren_depth
         IN  CASE depth = 0 /\ token \in Keywords ->
                      AdvancedLoop(Tail(toks),
                          [st EXCEPT !.current_component =
                                         ComponentOf(Upper(token), @),
                                     !.paren_depth = depth])
               [] (depth # 0 \/ token \notin Keywords)
                      /\ st.current_component # "None" ->
                      AdvancedLoop(Tail(toks),
                          [st EXCEPT !.paren_depth = depth,
                                     !.components[st.current_component] =
                                         Append(@, token)])
               [] OTHER ->
                      AdvancedLoop(Tail(toks), [st EXCEPT !.paren_depth = depth])

advanced_component_extraction(sql_query) ==
    AdvancedLoop(SelectSeq(FirstStatement(sql_query),
                           LAMBDA token : ~IsWhitespace(token)),
                 [current_component |-> "None", paren_depth |-> 0,
                  components |-> empty_components])

\* the group a regular expression captures after the keyword start: up to
\* the first of the keywords stops behind it, or to the end where the
\* expression allows the end ($); nothing where the expression does not match
RegexCapture(toks, start, stops, to_end) ==
    LET starts == { i \in 1..Len(toks) : Upper(toks[i]) = start }
    IN  IF starts = { } THEN << >>
        ELSE LET i == CHOOSE k \in starts : \A m \in starts : k <= m
                 ends == { j \in (i + 2)..Len(toks) : Upper(toks[j]) \in stops }
             IN  IF ends # { }
                 THEN SubSeq(toks, i + 1,
                             (CHOOSE k \in ends : \A m \in ends : k <= m) - 1)
                 ELSE IF to_end THEN SubSeq(toks, i + 1, Len(toks))
                 ELSE << >>

\* the statement with its whitespace collapsed, by token
regex_component_extraction(sql_query) ==
    LET query == SelectSeq(RStripTerminator(StrStrip(sql_query)),
                           LAMBDA c : ~IsWhitespace(c))
        limit_match == RegexCapture(query, "LIMIT", { }, TRUE)
    IN  [name \in Range(ComponentNames) |->
            CASE name = "select" ->
                     RegexCapture(query, "SELECT", { "FROM" }, FALSE)
              [] name = "from" ->
                     RegexCapture(query, "FROM",
                                  { "WHERE", "GROUP BY", "ORDER BY", "LIMIT" },
                                  TRUE)
              [] name = "where" ->
                     RegexCapture(query, "WHERE",
                                  { "GROUP BY", "ORDER BY", "LIMIT" }, TRUE)
              [] name = "group_by" ->
                     RegexCapture(query, "GROUP BY",
                                  { "HAVING", "ORDER BY", "LIMIT" }, TRUE)
              [] name = "having" ->
                     RegexCapture(query, "HAVING", { "ORDER BY", "LIMIT" }, TRUE)
              [] name = "order_by" ->
                     RegexCapture(query, "ORDER BY", { "LIMIT" }, TRUE)
              [] name = "limit" ->
                     IF limit_match # << >> /\ Head(limit_match) \in Numbers
                     THEN << Head(limit_match) >> ELSE << >>
              [] OTHER -> << >>]

\* parse_fails: sqlparse raises on the statements of this run
extract_components(sql_query, parse_fails) ==
    IF IsEmptySql(sql_query) \/ StrStrip(sql_query) = << >>
    THEN empty_components
    ELSE IF parse_fails THEN regex_component_extraction(sql_query)
    ELSE LET components == advanced_component_extraction(sql_query)
         IN  IF \/ components["select"] # << >>
                \/ components["from"] # << >>
                \/ components["where"] # << >>
             THEN components
             ELSE regex_component_extraction(sql_query)

\* ---------------------------------------------- ImprovedColumnComparator
\* str.split(sep) by token, the empty pieces left out
RECURSIVE SplitLoop(_, _, _, _)
SplitLoop(toks, seps, piece, acc) ==
    IF toks = << >> THEN IF piece = << >> THEN acc ELSE Append(acc, piece)
    ELSE IF Head(toks) \in seps
         THEN SplitLoop(Tail(toks), seps, << >>,
                        IF piece = << >> THEN acc ELSE Append(acc, piece))
         ELSE SplitLoop(Tail(toks), seps, Append(piece, Head(toks)), acc)

Split(toks, seps) == SplitLoop(toks, seps, << >>, << >>)

\* ^[a-zA-Z_][a-zA-Z0-9_]*$
IsIdentifier(token) == token \notin NonWords /\ token \notin Numbers

\* \w+
IsWord(token) == token \notin NonWords

\* lines 228-232: the words that are no alias
NotAnAlias ==
    { "FROM", "WHERE", "GROUP", "ORDER", "HAVING", "LIMIT", "AND", "OR", "NOT",
      "IN", "EXISTS", "LIKE", "BETWEEN", "IS", "NULL", "TRUE", "FALSE", "ASC",
      "DESC", "DISTINCT", "ALL", "ANY", "SOME" }

\* function names in upper case
normalize_expression(expression) ==
    [i \in 1..Len(expression) |->
        IF expression[i] = "count" THEN "COUNT" ELSE expression[i]]

\* f"{normalized_expr} AS <alias>"
WithAlias(normalized_expr) == normalized_expr \o << "AS", "<alias>" >>

normalize_select_item(item) ==
    LET as_at == { i \in 2..(Len(item) - 1) : item[i] = "AS" }
    IN  IF as_at # { }
        THEN WithAlias(normalize_expression(
                 SubSeq(item, 1,
                        (CHOOSE k \in as_at : \A m \in as_at : k <= m) - 1)))
        ELSE IF /\ Len(item) >= 2
                /\ IsIdentifier(item[Len(item)])
                /\ Upper(item[Len(item)]) \notin NotAnAlias
             THEN WithAlias(normalize_expression(
                      SubSeq(item, 1, Len(item) - 1)))
             ELSE normalize_expression(item)

\* a leading keyword removed (re.sub(r'^\s*SELECT\s+', ...) and its likes)
WithoutLeading(clause, keyword) ==
    IF Len(clause) >= 2 /\ Upper(Head(clause)) = keyword
    THEN Tail(clause) ELSE clause

extract_select_items(select_clause) ==
    LET items == Split(WithoutLeading(select_clause, "SELECT"), { "," })
    IN  [i \in 1..Len(items) |-> normalize_select_item(items[i])]

\* the similarity of two items, in tenths
compare_individual_items(gt_item, pred_item) ==
    LET has_alias(item) ==
            /\ Len(item) > 2
            /\ SubSeq(item, Len(item) - 1, Len(item)) = << "AS", "<alias>" >>
        base(item) == SubSeq(item, 1, Len(item) - 2)
    IN  IF gt_item = pred_item THEN 10
        ELSE IF has_alias(gt_item) /\ has_alias(pred_item)
        THEN IF base(gt_item) = base(pred_item) THEN 10 ELSE 0
        ELSE IF has_alias(gt_item) /\ ~has_alias(pred_item)
        THEN IF base(gt_item) = pred_item THEN 7 ELSE 0
        ELSE IF ~has_alias(gt_item) /\ has_alias(pred_item)
        THEN IF gt_item = base(pred_item) THEN 7 ELSE 0
        ELSE 0

\* intersection / union of two sets of items
Jaccard(gt_set, pred_set) ==
    IF gt_set \cup pred_set = { } THEN Ratio(0, 1)
    ELSE Ratio(Cardinality(gt_set \cap pred_set),
               Cardinality(gt_set \cup pred_set))

RECURSIVE TotalSimilarity(_, _)
TotalSimilarity(gt_normalized, pred_normalized) ==
    IF gt_normalized = << >> THEN 0
    ELSE LET similarities ==
                 { compare_individual_items(Head(gt_normalized), pred_normalized[j]) :
                       j \in 1..Len(pred_normalized) }
             best_match ==
                 CHOOSE s \in similarities \cup { 0 } :
                     \A o \in similarities : s >= o
         IN  best_match + TotalSimilarity(Tail(gt_normalized), pred_normalized)

calculate_flexible_similarity(gt_normalized, pred_normalized) ==
    IF Len(gt_normalized) # Len(pred_normalized)
    THEN Jaccard(Range(gt_normalized), Range(pred_normalized))
    ELSE Ratio(TotalSimilarity(gt_normalized, pred_normalized),
               10 * Len(gt_normalized))

compare_select_items(gt_items, pred_items) ==
    LET gt_normalized ==
            [i \in 1..Len(gt_items) |-> normalize_select_item(gt_items[i])]
        pred_normalized ==
            [i \in 1..Len(pred_items) |-> normalize_select_item(pred_items[i])]
    IN  IF gt_normalized = << >> /\ pred_normalized = << >> THEN Ratio(1, 1)
        ELSE IF gt_normalized = << >> \/ pred_normalized = << >>
        THEN Ratio(0, 1)
        ELSE calculate_flexible_similarity(gt_normalized, pred_normalized)

\* ---------------------------------------------- ComponentMatchingMetric
\* self.clause_weights, in hundredths
clause_weights ==
    [name \in Range(ComponentNames) |->
        CASE name = "select" -> 25
          [] name = "from" -> 20
          [] name = "where" -> 20
          [] name = "joins" -> 15
          [] name = "group_by" -> 10
          [] name = "order_by" -> 5
          [] name = "having" -> 3
          [] name = "limit" -> 2]

evaluate_select_clause(gt_select, pred_select) ==
    IF gt_select = << >> /\ pred_select = << >> THEN Ratio(1, 1)
    ELSE IF gt_select = << >> \/ pred_select = << >> THEN Ratio(0, 1)
    ELSE compare_select_items(extract_select_items(gt_select),
                              extract_select_items(pred_select))

\* re.sub(r'\s+(AS\s+)?\w+\s*$', '', table) and strip of each table
extract_table_names(from_clause) ==
    LET tables == Split(WithoutLeading(from_clause, "FROM"), { "," })
        name(table) ==
            IF Len(table) >= 3 /\ IsWord(table[Len(table)])
                   /\ table[Len(table) - 1] = "AS"
            THEN SubSeq(table, 1, Len(table) - 2)
            ELSE IF Len(table) >= 2 /\ IsWord(table[Len(table)])
            THEN SubSeq(table, 1, Len(table) - 1)
            ELSE table
    IN  [i \in 1..Len(tables) |-> name(tables[i])]

\* the score of two clauses by the sets of their items
SetScore(gt_set, pred_set) ==
    IF gt_set = { } /\ pred_set = { } THEN Ratio(1, 1)
    ELSE IF gt_set = { } \/ pred_set = { } THEN Ratio(0, 1)
    ELSE Jaccard(gt_set, pred_set)

evaluate_from_clause(gt_from, pred_from) ==
    IF gt_from = << >> /\ pred_from = << >> THEN Ratio(1, 1)
    ELSE IF gt_from = << >> \/ pred_from = << >> THEN Ratio(0, 1)
    ELSE SetScore(Range(extract_table_names(gt_from)),
                  Range(extract_table_names(pred_from)))

extract_conditions(where_clause, parse_fails) ==
    LET parts == Split(WithoutLeading(where_clause, "WHERE"), { "AND", "OR" })
        conditions ==
            [i \in 1..Len(parts) |->
                normalize_sql(JoinTokens(parts[i]), parse_fails)]
    IN  SelectSeq(conditions, LAMBDA n : n # << >>)

evaluate_where_clause(gt_where, pred_where, parse_fails) ==
    IF gt_where = << >> /\ pred_where = << >> THEN Ratio(1, 1)
    ELSE IF gt_where = << >> \/ pred_where = << >> THEN Ratio(0, 1)
    ELSE SetScore(Range(extract_conditions(gt_where, parse_fails)),
                  Range(extract_conditions(pred_where, parse_fails)))

evaluate_generic_clause(gt_clause, pred_clause, parse_fails) ==
    IF gt_clause = << >> /\ pred_clause = << >> THEN Ratio(1, 1)
    ELSE IF gt_clause = << >> \/ pred_clause = << >> THEN Ratio(0, 1)
    ELSE IF normalize_sql(JoinTokens(gt_clause), parse_fails)
                = normalize_sql(JoinTokens(pred_clause), parse_fails)
         THEN Ratio(1, 1) ELSE Ratio(0, 1)

\* re.findall(r'\d+', clause)
evaluate_limit_clause(gt_limit, pred_limit) ==
    IF gt_limit = << >> /\ pred_limit = << >> THEN Ratio(1, 1)
    ELSE IF gt_limit = << >> \/ pred_limit = << >> THEN Ratio(0, 1)
    ELSE IF SelectSeq(gt_limit, LAMBDA t : t \in Numbers)
                = SelectSeq(pred_limit, LAMBDA t : t \in Numbers)
         THEN Ratio(1, 1) ELSE Ratio(0, 1)

evaluate_component(component_name, gt_component, pred_component, parse_fails) ==
    CASE component_name = "select" ->
             evaluate_select_clause(gt_component, pred_component)
      [] component_name = "from" ->
             evaluate_from_clause(gt_component, pred_component)
      [] component_name = "where" ->
             evaluate_where_clause(gt_component, pred_component, parse_fails)
      [] component_name = "limit" ->
             evaluate_limit_clause(gt_component, pred_component)
      [] OTHER ->
             evaluate_generic_clause(gt_component, pred_component, parse_fails)

\* lines 88-95: the score of each clause kind
component_scores(ground_truth_sql, predicted_sql, parse_fails) ==
    LET gt_components == extract_components(ground_truth_sql, parse_fails)
        pred_components == extract_components(predicted_sql, parse_fails)
    IN  [name \in Range(ComponentNames) |->
            evaluate_component(name, gt_components[name],
                               pred_components[name], parse_fails)]

\* sum(component_scores[comp] * weight for comp, weight in ...), exactly
\* and in hundredths
RECURSIVE WeightedSum(_, _, _)
WeightedSum(scores, i, acc) ==
    IF i > Len(ComponentNames) THEN acc
    ELSE LET name == ComponentNames[i]
         IN  WeightedSum(scores, i + 1,
                         Ratio(acc.num * scores[name].den
                                   + clause_weights[name] * scores[name].num
                                         * acc.den,
                               acc.den * scores[name].den))

\* the threshold looked for at another place
is_component_correct_Strict(overall_score) ==
    overall_score.num * ScoreOne > ComponentThreshold * overall_score.den

\* overall_score >= 0.8
is_component_correct(overall_score) ==
    overall_score.num * ScoreOne >= ComponentThreshold * overall_score.den

\* c.fault: the exception the comparison of the clauses raises, if it does
evaluate_components(c) ==
    IF IsEmptySql(c.ground_truth_sql) \/ IsEmptySql(c.predicted_sql)
    THEN Return(create_result("Component Matching (CM)", 0, FALSE,
                              [reason |-> "Empty or missing SQL query"], None))
    ELSE IF c.fault # NoFault
    THEN Raise(c.fault)
    ELSE LET scores == component_scores(c.ground_truth_sql, c.predicted_sql,
                                        c.parse_fails)
             weighted == WeightedSum(scores, 1, Ratio(0, 1))
             overall_score == Ratio(weighted.num, weighted.den * ScoreOne)
         IN  Return(create_result("Component Matching (CM)", overall_score,
                                  is_component_correct(overall_score),
                                  [overall_score |-> overall_score,
                                   component_scores |-> scores],
                                  None))

\* ------------------------------------------------------------- actions
ExactMatchEvaluate ==
    /\ mres = NoResult
    /\ normalized = << >>
    /\ mres' = safe_evaluate("Exact Match (EM)", evaluate_exact_match(ctx))
    /\ UNCHANGED << ctx, normalized, cursor_log >>

ExecutionAccuracyEvaluate ==
    /\ mres = NoResult
    /\ normalized = << >>
    /\ mres' = safe_evaluate("Execution Accuracy (EX)", evaluate_execution(ctx))
    /\ cursor_log' = cursor_log \o execution_statements(ctx)
    /\ UNCHANGED << ctx, normalized >>

ComponentMatchingEvaluate ==
    /\ mres = NoResult
    /\ normalized = << >>
    /\ mres' = safe_evaluate("Component Matching (CM)",
                             evaluate_components(ctx))
    /\ UNCHANGED << ctx, normalized, cursor_log >>

\* SQLNormalizer.normalize_sql applied to the predicted statement, then to
\* what it returned
NormalizeSql ==
    /\ mres = NoResult
    /\ Len(normalized) < 2
    /\ normalized' =
           Append(normalized,
                  normalize_sql(IF normalized = << >> THEN ctx.predicted_sql
                                ELSE normalized[Len(normalized)],
                                ctx.parse_fails))
    /\ UNCHANGED << ctx, mres, cursor_log >>

MetricNext ==
    \/ ExactMatchEvaluate /\ UNCHANGED << vars, evars >>
    \/ ExecutionAccuracyEvaluate /\ UNCHANGED << vars, evars >>
    \/ ComponentMatchingEvaluate /\ UNCHANGED << vars, evars >>
    \/ NormalizeSql /\ UNCHANGED << vars, evars >>

\* statements of every shape, the two executions fixed
MetricInit ==
    /\ ctx \in [ground_truth_sql : ReferenceStatements,
                predicted_sql : SqlStrings \cup {None},
                database_connection : BOOLEAN,
                parse_fails : BOOLEAN,
                fault : Faults,
                handle : {DefaultContext.handle},
                gt_execution : {DefaultContext.gt_execution},
                pred_execution : {DefaultContext.pred_execution}]
    /\ mres = NoResult
    /\ normalized = << >>
    /\ cursor_log = << >>

InitMetric == Init /\ EvalIdle /\ MetricInit

MetricSpec == InitMetric /\ [][MetricNext]_allvars

\* executions of every shape, few statements
ExecutionInit ==
    /\ ctx \in [ground_truth_sql : ReferenceStatements,
                predicted_sql : {None, << "t" >>},
                database_connection : BOOLEAN,
                parse_fails : {FALSE},
                fault : Faults,
                handle : HandleKinds,
                gt_execution : Executions,
                pred_execution : Executions]
    /\ mres = NoResult
    /\ normalized = << >>
    /\ cursor_log = << >>

InitExecution == Init /\ EvalIdle /\ ExecutionInit

ExecutionSpec == InitExecution /\ [][MetricNext]_allvars

\* statements made of clauses, compared by Component Matching
ComponentInit ==
    /\ ctx \in [ground_truth_sql : ReferenceClauseStatements,
                predicted_sql : PredictedClauseStatements,
                database_connection : {FALSE},
                parse_fails : {FALSE},
                fault : {NoFault},
                handle : {DefaultContext.handle},
                gt_execution : {DefaultContext.gt_execution},
                pred_execution : {DefaultContext.pred_execution}]
    /\ mres = NoResult
    /\ normalized = << >>
    /\ cursor_log = << >>

InitComponent == Init /\ EvalIdle /\ ComponentInit

ComponentNext == ComponentMatchingEvaluate /\ UNCHANGED << vars, evars >>

ComponentSpec == InitComponent /\ [][ComponentNext]_allvars

\* ======================================================================
\* Properties of evaluate_questions and aggregate_results
\* ======================================================================
Parallel == max_workers > 1 /\ epc # "start"

AgentReturnsSql(q) == questions[q].agent \in {"match", "invalid"}

RECURSIVE SumTimes(_)
SumTimes(S) ==
    IF S = {} THEN 0
    ELSE LET q == CHOOSE x \in S : TRUE
         IN  ExecutionTime(q) + SumTimes(S \ {q})

\* the counters that the examples of S add up to, in whatever order
ExpectedStats(S) ==
    [success_count |-> Cardinality({ q \in S : AgentReturnsSql(q) }),
     failure_count |-> Cardinality({ q \in S : ~AgentReturnsSql(q) }),
     total_time |-> SumTimes(S)]

At(positions) == { q \in DOMAIN wpc : wpc[q] \in positions }

PastStats == DOMAIN wpc \ At({"queued", "agent", "stats_enter", "stats_update"})

\* C12: in the parallel mode every update of the counters and every append
\* to the score lists and to the results happens while its thread holds the
\* lock of that collection, no update is lost at any moment, and what is
\* returned depends on the examples only, not on the order of completion.
C12_UpdatesUnderMutualExclusion ==
    Parallel =>
        /\ \A q \in At({"stats_update"}) : locks.stats_lock = Worker(q)
        /\ \A q \in At({"scores_append"}) : locks.results_lock = Worker(q)
        /\ \A q \in At({"count_update"}) : locks.count_lock = Worker(q)
        /\ epc = "append" => locks.results_lock = MainThread
        /\ agent_stats = ExpectedStats(PastStats)
        /\ completed_count = Cardinality(At({"done", "collecting", "collected"}))
        /\ Len(detailed_results) = Cardinality(At({"collected"}))
        /\ epc = "returned" =>
              /\ agent_stats = ExpectedStats(DOMAIN questions)
              /\ completed_count = Len(questions)
              /\ { detailed_results[i].question_id :
                       i \in 1..Len(detailed_results) } = DOMAIN questions
              /\ \A m \in Range(metrics) :
                    Len(metric_scores[m]) =
                        IF m = "Raising" THEN 0
                        ELSE Cardinality({ q \in DOMAIN questions :
                                              AgentReturnsSql(q) })

\* two examples, both answered with SQL, collected in the reverse of the
\* order of submission
C12_Witness ==
    /\ Parallel
    /\ epc = "returned"
    /\ Len(questions) = 2
    /\ agent_stats.success_count = 1
    /\ agent_stats.failure_count = 1
    /\ agent_stats.total_time = ExecutionTime(1) + ExecutionTime(2)
    /\ Len(metric_scores["EX"]) = 1
    /\ detailed_results[1].question_id = 2

\* what the loop over the metrics records for example q when it is the
\* only example evaluated on the data source handle
OwnEntries(q) ==
    LET l == AgentLocal(q)
        predicted == IF AgentSucceeded(l) THEN l.predicted_sql ELSE ""
    IN  SequentialMetrics(predicted, 1, "ready", EmptyDict,
                          [m \in Range(metrics) |-> << >>]).metrics

\* C13: in the parallel mode the outcome recorded for an example is the
\* outcome of that example alone: processing another example, a failed
\* predicted statement on the data source handle included, does not change
\* it.
C13_ExamplesIndependent ==
    Parallel =>
        \A i \in 1..Len(detailed_results) :
            detailed_results[i].metrics =
                OwnEntries(detailed_results[i].question_id)

Terminated == epc \in {"returned", "aggregated", "ZeroDivisionError"}

\* no lock while the agent or a metric (and through it the data source) is
\* called, and never two locks in one thread
LockDiscipline ==
    /\ \A q \in At({"queued", "agent", "stats_enter", "metric", "scores_enter",
                    "count_enter", "done", "collecting", "collected"}) :
          Holds(Worker(q)) = {}
    /\ \A q \in DOMAIN wpc : Cardinality(Holds(Worker(q))) <= 1
    /\ Cardinality(Holds(MainThread)) <= 1
    /\ epc # "append" => Holds(MainThread) = {}

\* C14: in the parallel mode no worker holds a lock while it calls the
\* agent or a metric, no thread takes a lock while it holds one, and, the
\* agent and the metrics returning, every worker finishes and the step
\* ends.
C14_NoLockAcrossCallsAndTermination ==
    /\ [](Parallel => LockDiscipline)
    /\ (max_workers > 1) => <>Terminated

\* the calling thread is inside "with results_lock:" while a worker waits
\* to enter it
C14_Witness ==
    /\ Parallel
    /\ epc = "append"
    /\ locks.results_lock = MainThread
    /\ \E q \in DOMAIN wpc : wpc[q] = "scores_enter"

RecordIds == { detailed_results[i].question_id : i \in 1..Len(detailed_results) }

\* C15: in both modes the step comes to its end whatever the agent, the
\* metrics and the predicted statements do, and what it returns holds
\* exactly one record per example, each with an entry for every metric.
C15_OneRecordPerExample ==
    /\ epc = "ZeroDivisionError" => Len(questions) = 0
    /\ epc = "returned" =>
          /\ Len(detailed_results) = Len(questions)
          /\ RecordIds = DOMAIN questions
          /\ \A i \in 1..Len(detailed_results) :
                DOMAIN detailed_results[i].metrics = Range(metrics)

\* a sequential batch returned although the agent raised on the first
\* example, the second example's statement failed on the data source and
\* the first metric raised on both
C15_Witness ==
    /\ epc = "returned"
    /\ max_workers = 1
    /\ Len(questions) = 2
    /\ questions[1].agent = "raise"
    /\ questions[2].agent = "invalid"
    /\ metrics[1] = "Raising"
    /\ Len(detailed_results) = 2
    /\ detailed_results[1].metrics["Raising"].error = "metric raised"
    /\ detailed_results[2].metrics["EX"].error = "Predicted query failed"

\* the individual scores of metric m, one per returned record
IndividualScores(m) ==
    [i \in 1..Len(detailed_results) |-> detailed_results[i].metrics[m].score]

CorrectRecords(m) ==
    { i \in 1..Len(detailed_results) : detailed_results[i].metrics[m].is_correct }

\* C16: for N evaluated examples the reported average of a metric is the
\* mean of its N individual scores and the reported accuracy is the
\* fraction of the N examples whose is_correct is true, the examples
\* without SQL counted with score 0.0.
C16_AggregatesOverAllExamples ==
    epc = "aggregated" =>
        \A m \in Range(metrics) :
            /\ RatioEq(aggregated[m].average_score,
                       Ratio(SumSeq(IndividualScores(m)), Len(questions)))
            /\ RatioEq(aggregated[m].accuracy,
                       Ratio(Cardinality(CorrectRecords(m)), Len(questions)))

\* ======================================================================
\* Properties of the metrics
\* ======================================================================
BothGiven ==
    ~IsEmptySql(ctx.ground_truth_sql) /\ ~IsEmptySql(ctx.predicted_sql)

Evaluated(name) == mres # NoResult /\ mres.metric_name = name

\* C17: Exact Match scores 1.0 exactly when both statements are non-empty
\* and their normalized forms are equal and 0.0 otherwise; a missing or
\* empty statement gives 0.0 without an exception; is_correct is true
\* exactly when the score is 1.0; the mismatch diagnostics, failing or not,
\* leave the score at 0.0.
C17_ExactMatchScore ==
    Evaluated("Exact Match (EM)") =>
        /\ ~mres.raised
        /\ mres.score =
               IF /\ BothGiven
                  /\ normalize_sql(ctx.ground_truth_sql, ctx.parse_fails)
                         = normalize_sql(ctx.predicted_sql, ctx.parse_fails)
               THEN ScoreOne ELSE 0
        /\ mres.is_correct = (mres.score = ScoreOne)
        /\ ~BothGiven => mres.error_message = None

\* a predicted statement that differs from the reference in keyword case
\* and whitespace only is scored 1.0
C17_Witness ==
    /\ Evaluated("Exact Match (EM)")
    /\ ctx.ground_truth_sql = << "SELECT", " ", "t" >>
    /\ ctx.predicted_sql = << "select", "\n", "t" >>
    /\ ~ctx.parse_fails
    /\ mres.score = ScoreOne
    /\ mres.is_correct

\* whether the evaluation function of the metric raises in this context
InnerRaises(name) ==
    CASE name = "Exact Match (EM)" -> evaluate_exact_match(ctx).raises
      [] name = "Execution Accuracy (EX)" -> evaluate_execution(ctx).raises
      [] OTHER -> evaluate_components(ctx).raises

\* C18: evaluate of each of the three metrics never raises to its caller;
\* an exception inside the evaluation becomes a result with score 0.0,
\* is_correct false and the message of the exception as the error.
C18_MetricsNeverRaise ==
    mres # NoResult =>
        /\ ~mres.raised
        /\ InnerRaises(mres.metric_name) =>
              /\ mres.score = 0
              /\ ~mres.is_correct
              /\ mres.error_message
                     = << "Error in", mres.metric_name >> \o ctx.fault
              /\ mres.details = [error |-> ctx.fault]

\* the comparison of the result sets raised inside Execution Accuracy
C18_Witness ==
    /\ Evaluated("Execution Accuracy (EX)")
    /\ ctx.fault = << "boom" >>
    /\ InnerRaises("Execution Accuracy (EX)")
    /\ mres.score = 0
    /\ mres.error_message = << "Error in", "Execution Accuracy (EX)", "boom" >>

\* C19: normalize_sql is idempotent: applied to its own result it returns
\* that result.
C19_NormalizeIdempotent ==
    Len(normalized) = 2 => normalized[2] = normalized[1]

BothExecuted ==
    /\ Evaluated("Execution Accuracy (EX)")
    /\ BothGiven
    /\ ctx.database_connection
    /\ ctx.gt_execution.error = None
    /\ ctx.pred_execution.error = None
    /\ ctx.fault = NoFault

\* equal as multisets: one is a rearrangement of the other
SameMultiset(a, b) ==
    /\ Len(a) = Len(b)
    /\ \E p \in Permutations(1..Len(a)) : \A i \in 1..Len(a) : a[i] = b[p[i]]

\* C20: when both statements execute, Execution Accuracy scores 1.0 exactly
\* when the normalized rows of the two results are equal as multisets and
\* 0.0 otherwise; the overlap ratio of a mismatch leaves the score at 0.0.
C20_ExecutionAccuracyMultiset ==
    BothExecuted =>
        /\ mres.score =
               IF SameMultiset(normalize_results(ctx.gt_execution.rows),
                               normalize_results(ctx.pred_execution.rows))
               THEN ScoreOne ELSE 0
        /\ mres.is_correct = (mres.score = ScoreOne)
        /\ ~mres.raised
        /\ "overlap_ratio" \in DOMAIN mres.details.comparison_details
               => mres.score = 0

\* the same rows in another order, one value with a trailing blank
C20_Witness ==
    /\ BothExecuted
    /\ ctx.gt_execution.rows = << << "a" >>, << "b" >> >>
    /\ ctx.pred_execution.rows = << << "b" >>, << "a " >> >>
    /\ mres.score = ScoreOne

\* Execution Accuracy reached the data source with both statements
BothSent ==
    /\ Evaluated("Execution Accuracy (EX)")
    /\ BothGiven
    /\ ctx.database_connection

\* the text e ends with the message m
EndsWith(e, m) ==
    /\ Len(e) >= Len(m)
    /\ SubSeq(e, Len(e) - Len(m) + 1, Len(e)) = m

C22_TimeoutBeforeEveryExecution ==
    \A i \in 1..Len(cursor_log) :
        cursor_log[i] # SetTimeout =>
            /\ i > 1
            /\ cursor_log[i - 1] = SetTimeout

\* what Component Matching came to for two statements that were given
Compared ==
    /\ Evaluated("Component Matching (CM)")
    /\ BothGiven
    /\ ctx.fault = NoFault

ClauseScore(name) == mres.details.component_scores[name]

\* a ratio is a number of [0, 1]
InUnitInterval(r) == r.den > 0 /\ 0 <= r.num /\ r.num <= r.den

\* the product of the denominators of the clause scores
ScoreDenominator ==
    ClauseScore("select").den * ClauseScore("from").den
        * ClauseScore("where").den * ClauseScore("joins").den
        * ClauseScore("group_by").den * ClauseScore("order_by").den
        * ClauseScore("having").den * ClauseScore("limit").den

\* a clause score times its weight, in hundredths of 1 / ScoreDenominator
Weighted(name, weight) ==
    weight * ClauseScore(name).num * (ScoreDenominator \div ClauseScore(name).den)

\* C23: the score of Component Matching is the sum over the eight clause
\* kinds of clause score times weight, with the weights 0.25 projection,
\* 0.20 source, 0.20 filter, 0.15 joins, 0.10 grouping, 0.05 ordering,
\* 0.03 having and 0.02 limit, which sum to 1.0; every clause score and the
\* overall score lie in [0, 1]; is_correct is true exactly when the overall
\* score is at least 0.8.
C23_WeightedClauseScore ==
    Compared =>
        /\ ~mres.raised
        /\ \A i \in 1..Len(ComponentNames) :
               InUnitInterval(ClauseScore(ComponentNames[i]))
        /\ 25 + 20 + 20 + 15 + 10 + 5 + 3 + 2 = 100
        /\ mres.score.den > 0
        /\ mres.score.num * ScoreDenominator * 100
               = mres.score.den
                     * ( Weighted("select", 25) + Weighted("from", 20)
                         + Weighted("where", 20) + Weighted("joins", 15)
                         + Weighted("group_by", 10) + Weighted("order_by", 5)
                         + Weighted("having", 3) + Weighted("limit", 2) )
        /\ InUnitInterval(mres.score)
        /\ mres.is_correct = (mres.score.num * 10 >= 8 * mres.score.den)

\* only the source differs: the score is 0.8, on the threshold, and the
\* statement counts as correct
C23_Witness ==
    /\ Compared
    /\ RatioEq(ClauseScore("from"), Ratio(0, 1))
    /\ \A i \in 1..Len(ComponentNames) :
           ComponentNames[i] # "from"
               => RatioEq(ClauseScore(ComponentNames[i]), Ratio(1, 1))
    /\ RatioEq(mres.score, Ratio(8, 10))
    /\ mres.is_correct

\* the items of a clause: the tables of a source, the pieces between the
\* commas of another clause
ClauseItems(name, clause) ==
    IF name = "from" THEN Range(extract_table_names(clause))
    ELSE Range(Split(clause, { "," }))

\* |A \cap B| / |A \cup B| of the items of the two clauses of a kind
ClauseJaccard(name) ==
    SetScore(ClauseItems(name, extract_components(ctx.ground_truth_sql,
                                                  ctx.parse_fails)[name]),
             ClauseItems(name, extract_components(ctx.predicted_sql,
                                                  ctx.parse_fails)[name]))

\* C24: in Component Matching the source, joins, grouping, ordering and
\* having clauses are each scored by the Jaccard index of the sets of items
\* of the reference and of the predicted clause, so that two clauses whose
\* sets overlap in part (grouping by a, b against grouping by a) get a
\* score strictly between 0 and 1.
C24_ClausesScoredByJaccard ==
    Compared =>
        \A name \in { "from", "joins", "group_by", "order_by", "having" } :
            RatioEq(ClauseScore(name), ClauseJaccard(name))

\* the statement with the alias total spelled cnt wherever it is used
RenameAlias(sql) ==
    [i \in 1..Len(sql) |-> IF sql[i] = "total" THEN "cnt" ELSE sql[i]]

\* C25: Component Matching is insensitive to the rename of a projection
\* alias that is used consistently: for two statements that differ in the
\* spelling of the alias only (total against cnt, in the projection and in
\* ORDER BY) the projection scores 1.0 and the overall score is 1.0.
C25_AliasRenameScoresOne ==
    ( /\ Compared
      /\ \E i \in 1..(Len(ctx.ground_truth_sql) - 2) :
             /\ ctx.ground_truth_sql[i] = "AS"
             /\ ctx.ground_truth_sql[i + 2] = "total"
      /\ ctx.predicted_sql = RenameAlias(ctx.ground_truth_sql) ) =>
        /\ RatioEq(ClauseScore("select"), Ratio(1, 1))
        /\ RatioEq(mres.score, Ratio(1, 1))

JoinKeywords == { "JOIN", "LEFT JOIN", "INNER JOIN" }

HasJoin(sql) == \E i \in 1..Len(sql) : sql[i] \in JoinKeywords

\* the statement without its JOIN: the join keyword and what follows it up
\* to the next clause
DeleteJoin(sql) ==
    LET i == CHOOSE k \in 1..Len(sql) : sql[k] \in JoinKeywords
        later == { k \in (i + 1)..Len(sql) :
                      sql[k] \in { "WHERE", "GROUP BY", "HAVING", "ORDER BY",
                                   "LIMIT" } }
    IN  IF later = { } THEN SubSeq(sql, 1, i - 2)
        ELSE SubSeq(sql, 1, i - 1)
                 \o SubSeq(sql, CHOOSE k \in later : \A m \in later : k <= m,
                           Len(sql))

\* a < b for two ratios
RatioLess(a, b) == a.num * b.den < b.num * a.den

\* what Component Matching gives the reference compared with itself
Unmodified ==
    component_scores(ctx.ground_truth_sql, ctx.ground_truth_sql, ctx.parse_fails)

\* C26: for a reference statement with a JOIN, the predicted statement
\* obtained by deleting that JOIN gets a strictly lower joins score and a
\* strictly lower overall score than the unmodified statement, and the
\* evaluation does not raise.
C26_DeletedJoinLowersScores ==
    ( /\ Compared
      /\ HasJoin(ctx.ground_truth_sql)
      /\ ctx.predicted_sql = DeleteJoin(ctx.ground_truth_sql) ) =>
        /\ ~mres.raised
        /\ RatioLess(ClauseScore("joins"), Unmodified["joins"])
        /\ LET weighted == WeightedSum(Unmodified, 1, Ratio(0, 1))
           IN  RatioLess(mres.score, Ratio(weighted.num, weighted.den * ScoreOne))

\* ======================================================================
\* Further properties of the scheduler
\* ======================================================================
\* the edges the registered tasks declare: dependency -> dependent
DeclaredEdges == { << d, t >> : t \in DOMAIN tasks, d \in TaskNames } \cap
                 UNION { { << d, t >> : d \in Deps(t) } : t \in DOMAIN tasks }

\* C27: after any sequence of add_task calls, failed ones included, the
\* graph is acyclic, its nodes are exactly the registered tasks, each once,
\* and its edges exactly the declared dependencies; validate() passes.
C27_BuiltGraphIsValid ==
    /\ ~HasCycle(graph)
    /\ validate
    /\ Range(graph.nodes) = DOMAIN tasks
    /\ Len(graph.nodes) = Cardinality(DOMAIN tasks)
    /\ Range(graph.edges) = DeclaredEdges
    /\ Len(graph.edges) = Cardinality(DeclaredEdges)

\* a call was refused after a task with a dependency had been registered
C27_Witness ==
    /\ pc = "idle"
    /\ raised = "ValueError: dependency not found"
    /\ Cardinality(DOMAIN tasks) >= 2
    /\ Len(graph.edges) >= 1
    /\ validate

\* the tasks whose dependencies all stand in the prefix
Ready(prefix) ==
    { t \in DOMAIN tasks \ Range(prefix) :
        \A e \in Range(graph.edges) : e[2] = t => e[1] \in Range(prefix) }

RECURSIVE OrdersFrom(_)
\* every way to complete the prefix to an order of all tasks in which each
\* task comes after the tasks it has an edge from
OrdersFrom(prefix) ==
    IF Range(prefix) = DOMAIN tasks THEN { prefix }
    ELSE UNION { OrdersFrom(Append(prefix, t)) : t \in Ready(prefix) }

\* the execution orders the graph admits
AdmittedOrders == OrdersFrom(<< >>)

RunsAfter(order, t, earlier) ==
    \A d \in earlier : Position(order, d) < Position(order, t)

\* C28: the ten registrations of create_evaluation_pipeline are all
\* accepted (no dependency is named before it is registered), and in every
\* order the built graph admits, the order execute() follows included,
\* cleanup_resources is last, evaluate_questions comes after
\* load_ground_truth, initialize_metrics, initialize_agent and
\* initialize_database, and save_results after evaluate_questions,
\* aggregate_results and generate_report.
C28_PipelineOrder ==
    /\ raised = NoException
    /\ PipelineBuilt =>
        /\ Cardinality(DOMAIN tasks) = 10
        /\ AdmittedOrders # {}
        /\ \A order \in AdmittedOrders :
            /\ Len(order) = 10
            /\ order[10] = "cleanup_resources"
            /\ RunsAfter(order, "cleanup_resources",
                         DOMAIN tasks \ {"cleanup_resources"})
            /\ RunsAfter(order, "evaluate_questions",
                         {"load_ground_truth", "initialize_metrics",
                          "initialize_agent", "initialize_database"})
            /\ RunsAfter(order, "save_results",
                         {"evaluate_questions", "aggregate_results",
                          "generate_report"})
    /\ pc # "idle" =>
        /\ execution_order \in AdmittedOrders
        /\ \A i \in 1..Len(calls) : calls[i].task = execution_order[i]

\* the built pipeline has been run to the end: ten calls, the last one
\* cleanup_resources, and the graph admits more than one order
C28_Witness ==
    /\ PipelineBuilt
    /\ pc = "summary"
    /\ Len(calls) = 10
    /\ calls[10].task = "cleanup_resources"
    /\ Cardinality(AdmittedOrders) > 1

\* ======================================================================
\* Further properties of evaluate_questions
\* ======================================================================
\* the examples whose agent call has been counted so far
Counted ==
    IF max_workers > 1 THEN PastStats
    ELSE IF epc = "start" THEN {}
    ELSE 1..Len(detailed_results)

Attempts == agent_stats.success_count + agent_stats.failure_count

\* C29: in both modes and under every interleaving each example adds one to
\* exactly one of success_count and failure_count, once: the two counters
\* add up to the number of examples counted so far, success_count counts
\* the examples answered with SQL, and when the step ends they add up to
\* the number of input examples.
C29_CountersCoverExamples ==
    /\ [](/\ Attempts = Cardinality(Counted)
          /\ agent_stats.success_count =
                 Cardinality({ q \in Counted : AgentReturnsSql(q) })
          /\ Terminated => Attempts = Len(questions))
    /\ [][/\ agent_stats'.success_count - agent_stats.success_count \in {0, 1}
          /\ agent_stats'.failure_count - agent_stats.failure_count \in {0, 1}
          /\ Attempts' - Attempts \in {0, 1}]_allvars

\* a parallel batch returned: the agent raised on the first example and
\* returned nothing on the second, both are counted as failures
C29_Witness ==
    /\ epc = "returned"
    /\ max_workers > 1
    /\ Len(questions) = 2
    /\ questions[1].agent = "raise"
    /\ questions[2].agent = "empty"
    /\ agent_stats.failure_count = 2
    /\ agent_stats.success_count = 0

RECURSIVE SequentialRun(_, _, _, _, _)
\* what _evaluate_questions_sequential holds after the examples q..N, the
\* passes of its loop applied one after the other
SequentialRun(q, conn, stats, scores, recs) ==
    IF q > Len(questions)
    THEN [agent_stats |-> stats, metric_scores |-> scores,
          detailed_results |-> recs, total_questions |-> Len(questions)]
    ELSE LET l == AgentLocal(q)
             predicted == IF AgentSucceeded(l) THEN l.predicted_sql ELSE ""
             r == SequentialMetrics(predicted, 1, conn, EmptyDict, scores)
         IN  SequentialRun(q + 1, r.connection, StatsAfter(stats, l),
                           r.metric_scores,
                           Append(recs,
                                  QuestionResults(q,
                                      [l EXCEPT !.predicted_sql = predicted,
                                                !.metrics = r.metrics])))

\* the dictionary sequential evaluation returns for the examples and
\* metrics of this run, on the data source handle as it was handed over
SequentialOutcome ==
    SequentialRun(1, "ready", ZeroStats, [m \in Range(metrics) |-> << >>], << >>)

\* C30: for the same examples, agent and metrics, what the step returns in
\* the parallel mode is, under every interleaving, what it returns in the
\* sequential mode up to order: the same records, the same success and
\* failure counts, the same total_questions and the same scores per metric.
C30_ParallelMatchesSequential ==
    epc = "returned" =>
        /\ SameMultiset(detailed_results, SequentialOutcome.detailed_results)
        /\ agent_stats.success_count = SequentialOutcome.agent_stats.success_count
        /\ agent_stats.failure_count = SequentialOutcome.agent_stats.failure_count
        /\ Len(questions) = SequentialOutcome.total_questions
        /\ \A m \in Range(metrics) :
              SameMultiset(metric_scores[m], SequentialOutcome.metric_scores[m])

\* the same, for batches in which no predicted statement fails on the data
\* source
C30_WithoutFailedStatements ==
    (\A q \in DOMAIN questions : questions[q].agent # "invalid") =>
        C30_ParallelMatchesSequential

\* the same, for the sequential mode alone
C30_SequentialAlone ==
    max_workers = 1 => C30_ParallelMatchesSequential

====
